---- MODULE Spec2Model ----
(***************************************************************************)
(* Model of scripts/structure.py (and its per-command script revisions):   *)
(* the certificate ledgers (encode_name/decode_name, get_existing_certs,   *)
(* create_cert, delete_cert, cmd_verify, cmd_specify), the reconciler      *)
(* (generate_scip_index, _update_entry_from_atoms and the two batch forms  *)
(* sync_structure_json_with_atoms / sync_structure_files_with_atoms), the  *)
(* verification result extractor (get_verification_results) and the graph  *)
(* decoder (get_dep_graph_string, get_dep_graph, generate_blueprint_json)  *)
(* with the create run around it (cmd_create, tweak_disambiguate).         *)
(*                                                                         *)
(* Strings are sequences of one-character strings.  A certificate store is *)
(* the set of file names of a certs directory.                             *)
(***************************************************************************)
EXTENDS Integers, Sequences, FiniteSets, TLC

VARIABLES
    \* ---- certificate ledger (cmd_verify) ----
    structure_type,     \* config["structure-type"]
    structure,          \* the name field of every entry of the persisted structure
    certs,              \* file names present in .verilib/certs/verify/
    verified_funcs,     \* locals of the last cmd_verify run
    failed_funcs,
    structure_names,
    existing_certs,
    to_create,
    to_delete,
    created,
    deleted,
    final_certs,
    pcVerify,           \* "init" before the first cmd_verify run, "done" after a run,
                        \* "interrupted" after a run that was killed in its loops
    uninterrupted,      \* the store the last run leaves, or would have left had it finished
    \* ---- certificate ledger (cmd_specify) ----
    certs_specify,      \* file names present in .verilib/certs/specify/
    functions_with_specs,   \* locals of the last cmd_specify run
    specify_names,          \* its structure_names
    uncertified,
    selected,               \* the names picked in the menu
    pcSpecify,
    \* ---- key escaping round trip ----
    pcCodec, nameX, nameY, keyX, keyY, certsX, readX,
    \* ---- reconciler ----
    pcRecon, scip_atoms, scip_index, entry, updated, error, warnings,
    \* ---- batch reconciliation (cmd_atomize) ----
    structure_entries,  \* the stub collection: key -> entry
    set_order,          \* iteration order of the interval sets in this build
    result,             \* sync_structure_json_with_atoms: returned collection
    updated_count,
    not_found_count,
    result_again,       \* the returned collection reconciled once more
    md_files,           \* sync_structure_files_with_atoms: front matter on disk
    files_updated_count,
    files_not_found_count,
    files_outcome,      \* "ok", or the exception that ended the run
    pcJson, pcFiles,
    \* ---- verification result extraction ----
    mapping_data,       \* one verification batch as a mapping id -> {verified: bool}
    lists_data,         \* the same batch as a verified/failed-lists document
    mapping_results,    \* get_verification_results(mapping_data)
    lists_results,      \* get_verification_results(lists_data)
    pcMapping, pcLists,
    \* ---- graph decoder (generate_blueprint_json) ----
    dom,                \* the script elements of dep_graph_document.html, in document order
    modal_divs,         \* its dep-modal-container divs, in document order
    args_form,          \* args.form of the create run
    node_info,          \* what get_node_info returned: stripped id -> content
    decoded,            \* what the decoding returned or raised
    blueprint_written,  \* blueprint.json has been written by this run
    blueprint_json,     \* the content of blueprint.json
    config_json,        \* the content of config.json
    structure_output,   \* the structure written by the create run: file path -> entry
    pcGraph,
    \* ---- tracked functions (cmd_create, dalek-lite) ----
    tracked,            \* what read_tracked_csv returned, in insertion order
    disambiguated,      \* what tweak_disambiguate returned
    pcTracked

ledgerVars == <<structure_type, structure, certs, verified_funcs, failed_funcs, structure_names,
                existing_certs, to_create, to_delete, created, deleted, final_certs, pcVerify,
                uninterrupted, certs_specify, functions_with_specs, specify_names, uncertified,
                selected, pcSpecify>>
verifyLocals == <<verified_funcs, failed_funcs, structure_names, existing_certs, to_create,
                  to_delete, created, deleted, final_certs, pcVerify, uninterrupted>>
specifyLocals == <<functions_with_specs, specify_names, uncertified, selected, pcSpecify>>
codecVars == <<pcCodec, nameX, nameY, keyX, keyY, certsX, readX>>
reconVars == <<pcRecon, scip_atoms, scip_index, entry, updated, error, warnings>>
batchVars == <<structure_entries, set_order, result, updated_count, not_found_count,
               result_again, md_files, files_updated_count, files_not_found_count,
               files_outcome, pcJson, pcFiles>>
extractVars == <<mapping_data, lists_data, mapping_results, lists_results, pcMapping, pcLists>>
graphVars == <<dom, modal_divs, args_form, node_info, decoded, blueprint_written,
              blueprint_json, config_json, structure_output, pcGraph>>
trackedVars == <<tracked, disambiguated, pcTracked>>
vars == <<ledgerVars, codecVars, reconVars, batchVars, extractVars, graphVars, trackedVars>>

\* what a step of one component leaves alone
exceptLedger == <<codecVars, reconVars, batchVars, extractVars, graphVars, trackedVars>>
exceptCodec == <<ledgerVars, reconVars, batchVars, extractVars, graphVars, trackedVars>>
exceptRecon == <<ledgerVars, codecVars, batchVars, extractVars, graphVars, trackedVars>>
exceptBatch == <<ledgerVars, codecVars, extractVars, graphVars, trackedVars>>
exceptExtract == <<ledgerVars, codecVars, reconVars, batchVars, graphVars, trackedVars>>
exceptGraph == <<ledgerVars, codecVars, reconVars, batchVars, extractVars, trackedVars>>
exceptTracked == <<ledgerVars, codecVars, reconVars, batchVars, extractVars>>

\* ---------------------------------------------------------------------------
\* Bounds
\* ---------------------------------------------------------------------------
MaxLen == 3          \* longest identifier drawn for the escaping round trip
MaxLine == 3         \* last source line of a file
MaxAtoms == 2        \* atoms in one atom batch
MaxEdges == 2        \* edge statements in one digraph
MaxDivs == 2         \* dep-modal-container divs in one document
MaxTracked == 3      \* tracked functions of one create run

\* ---------------------------------------------------------------------------
\* Generic helpers
\* ---------------------------------------------------------------------------
RECURSIVE StringsUpTo(_, _)
StringsUpTo(alphabet, n) ==
    IF n = 0 THEN {<<>>}
    ELSE LET shorter == StringsUpTo(alphabet, n - 1)
         IN  shorter \cup {Append(s, c) : s \in {t \in shorter : Len(t) = n - 1}, c \in alphabet}

\* Python's None, and a key a dict does not have
None == "None"
Absent == "Absent"
\* the same two for line numbers (source lines are 1-indexed)
NoneLine == 0
AbsentLine == 0 - 1

\* ---------------------------------------------------------------------------
\* encode_name / decode_name : urllib.parse.quote(name, safe='') / unquote
\* ---------------------------------------------------------------------------
\* Characters quote() never escapes (letters, digits, "_.-~"), restricted to
\* the characters that occur in the identifiers of this model.
AlwaysSafe == {"0", "1", "2", "3", "5", "8", "9", "A", "F",
               "a", "c", "d", "e", "f", "i", "m", "n", "o", "r", "s", "t", "u", "v", "."}

\* The two hex digits of the byte of a reserved (ASCII) character.
HexOf(c) ==
    CASE c = "/" -> <<"2", "F">>
      [] c = "%" -> <<"2", "5">>
      [] c = ":" -> <<"3", "A">>
      [] c = "#" -> <<"2", "3">>
      [] c = "(" -> <<"2", "8">>
      [] c = ")" -> <<"2", "9">>
      [] c = "\"" -> <<"2", "2">>

\* Mutant escaping: '%' itself is passed through unescaped.
QuoteCharNoPercent(c) ==
    IF c \in AlwaysSafe \cup {"%"} THEN <<c>> ELSE <<"%">> \o HexOf(c)

QuoteChar(c) ==
    IF c \in AlwaysSafe THEN <<c>> ELSE <<"%">> \o HexOf(c)

RECURSIVE encode_name(_)
encode_name(name) ==
    IF name = <<>> THEN <<>>
    ELSE QuoteChar(Head(name)) \o encode_name(Tail(name))

HexDigits == {"0", "1", "2", "3", "5", "8", "9", "A", "F", "a", "c", "d", "e", "f"}

UpperHex(h) ==
    CASE h = "a" -> "A" [] h = "c" -> "C" [] h = "d" -> "D"
      [] h = "e" -> "E" [] h = "f" -> "F" [] OTHER -> h

\* The character of byte 0xHL.  Bytes >= 0x80 standing alone are invalid
\* UTF-8 and decode (errors='replace') to U+FFFD; the remaining ASCII bytes
\* that no identifier of this model contains are written "?".
ByteChar(h, l) ==
    LET hl == <<UpperHex(h), UpperHex(l)>>
    IN  CASE hl = <<"2", "F">> -> "/"
          [] hl = <<"2", "5">> -> "%"
          [] hl = <<"3", "A">> -> ":"
          [] hl = <<"2", "3">> -> "#"
          [] hl = <<"2", "8">> -> "("
          [] hl = <<"2", "9">> -> ")"
          [] hl = <<"2", "2">> -> "\""
          [] hl[1] \in {"8", "9", "A", "C", "D", "E", "F"} -> "U+FFFD"
          [] OTHER -> "?"

RECURSIVE decode_name(_)
decode_name(encoded) ==
    IF encoded = <<>> THEN <<>>
    ELSE IF /\ Head(encoded) = "%"
            /\ Len(encoded) >= 3
            /\ encoded[2] \in HexDigits
            /\ encoded[3] \in HexDigits
         THEN <<ByteChar(encoded[2], encoded[3])>> \o decode_name(SubSeq(encoded, 4, Len(encoded)))
         ELSE <<Head(encoded)>> \o decode_name(Tail(encoded))

\* certs_dir / f"{encoded_name}.json"
CertPath(name) == Append(encode_name(name), ".json")

\* pathlib: Path.stem drops the last suffix; a name consisting of the suffix
\* alone (".json") is a dot-file without suffix and is its own stem.
Stem(file) ==
    IF Len(file) = 1 THEN file ELSE SubSeq(file, 1, Len(file) - 1)

get_existing_certs(dir) ==
    {decode_name(Stem(cert_file)) : cert_file \in {f \in dir : f[Len(f)] = ".json"}}

create_cert(dir, name) == dir \cup {CertPath(name)}

\* delete_cert returns the path (here TRUE) only if the file existed
delete_cert_found(dir, name) == CertPath(name) \in dir
delete_cert(dir, name) == dir \ {CertPath(name)}

\* ---------------------------------------------------------------------------
\* sorted(): Python orders str by code point
\* ---------------------------------------------------------------------------
Code(c) ==
    CASE c = "\"" -> 34 [] c = "#" -> 35 [] c = "%" -> 37 [] c = "(" -> 40
      [] c = ")" -> 41 [] c = "." -> 46 [] c = "/" -> 47 [] c = "0" -> 48
      [] c = "1" -> 49 [] c = "2" -> 50 [] c = "3" -> 51 [] c = "5" -> 53
      [] c = "8" -> 56 [] c = "9" -> 57 [] c = ":" -> 58 [] c = "A" -> 65
      [] c = "F" -> 70 [] c = "a" -> 97 [] c = "c" -> 99 [] c = "d" -> 100
      [] c = "e" -> 101 [] c = "f" -> 102 [] c = "i" -> 105 [] c = "m" -> 109
      [] c = "n" -> 110 [] c = "o" -> 111 [] c = "r" -> 114 [] c = "s" -> 115
      [] c = "t" -> 116 [] c = "u" -> 117 [] c = "v" -> 118

RECURSIVE StrLess(_, _)
StrLess(s, t) ==
    IF t = <<>> THEN FALSE
    ELSE IF s = <<>> THEN TRUE
    ELSE IF Head(s) = Head(t) THEN StrLess(Tail(s), Tail(t))
    ELSE Code(Head(s)) < Code(Head(t))

RECURSIVE sorted(_)
sorted(S) ==
    IF S = {} THEN <<>>
    ELSE LET least == CHOOSE x \in S : \A y \in S \ {x} : StrLess(x, y)
         IN  <<least>> \o sorted(S \ {least})

\* ---------------------------------------------------------------------------
\* Identifiers of the ledger model
\* ---------------------------------------------------------------------------
\* scip-names that scip-atoms verify reports on
ReportedNames == {<<"/">>, <<"%", "2", "F">>}
\* scip-names recorded in a dalek-lite structure
ScipNames == ReportedNames \cup {<<"F">>}
\* node ids of blueprint.json
BlueprintNodes == {<<"F">>, <<"2">>}
\* f"veri:{node_id}"
VeriName(node_id) == <<"v", "e", "r", "i", ":">> \o node_id
VeriNames == {VeriName(n) : n \in BlueprintNodes}
\* a missing or empty name field
NoName == <<>>

\* verification.json: a document whose "verification" object holds the two
\* lists of {scip-name} records (as sets of the recorded names; a record
\* without scip-name is NoName)
VerificationDocs ==
    {[shape |-> "lists", verification |-> v] :
        v \in [verified_functions : SUBSET (ReportedNames \cup {NoName}),
               failed_functions   : SUBSET (ReportedNames \cup {NoName})]}

\* verification_data.get('verification', {}), with the defaults [] of the
\* two list lookups: a document that is a mapping keyed by atom id has no
\* "verification" key.
VerificationOf(verification_data) ==
    IF verification_data.shape = "lists" THEN verification_data.verification
    ELSE [verified_functions |-> {}, failed_functions |-> {}]

\* blueprint.json: node id -> term-status, for the nodes it has
BlueprintDocs ==
    UNION {[ns -> {"fully-proved", "proved"}] : ns \in SUBSET BlueprintNodes}

BLUEPRINT_VERIFIED_STATUSES == {"fully-proved"}

get_verification_results(verification_data) ==
    LET verification == VerificationOf(verification_data)
    IN  [verified |-> {n \in verification.verified_functions : n # NoName},
         failed   |-> {n \in verification.failed_functions : n # NoName}]

get_blueprint_verification_results(blueprint_data) ==
    [verified |-> {VeriName(n) : n \in {m \in DOMAIN blueprint_data :
                                          blueprint_data[m] \in BLUEPRINT_VERIFIED_STATUSES}},
     failed   |-> {VeriName(n) : n \in {m \in DOMAIN blueprint_data :
                                          blueprint_data[m] \notin BLUEPRINT_VERIFIED_STATUSES}}]

\* the name field ("scip-name" / "veri-name") of every structure entry
StructureDocs ==
    IF structure_type = "blueprint" THEN SUBSET (VeriNames \cup {NoName})
    ELSE SUBSET (ScipNames \cup {NoName})

get_structure_names(entries) == {name \in entries : name # NoName}

\* The structure is (re)written: generate_structure_json / generate_structure_files
\* persist whatever entries the create and atomize commands computed.
generate_structure_json ==
    /\ \E entries \in StructureDocs : structure' = entries
    /\ structure' # structure
    /\ UNCHANGED <<structure_type, certs, certs_specify, verifyLocals, specifyLocals>>
    /\ UNCHANGED exceptLedger

\* ---------------------------------------------------------------------------
\* The two certificate directories of load_config
\* ---------------------------------------------------------------------------
\* config["certs_verify_dir"] = verilib_path / "certs" / "verify"
certs_verify_dir == "certs/verify"

\* Mutant: specify certificates are kept in the verify directory.
certs_specify_dir_shared == "certs/verify"

\* config["certs_specify_dir"] = verilib_path / "certs" / "specify"
certs_specify_dir == "certs/specify"

\* the file names in a certificate directory
Dir(certs_dir) == IF certs_dir = "certs/verify" THEN certs ELSE certs_specify

\* the certificate directories after certs_dir has become files
WriteDir(certs_dir, files) ==
    /\ certs' = IF certs_dir = "certs/verify" THEN files ELSE certs
    /\ certs_specify' = IF certs_dir = "certs/specify" THEN files ELSE certs_specify

\* ---------------------------------------------------------------------------
\* cmd_verify
\* ---------------------------------------------------------------------------
\* for name in sorted(to_create): created.append((name, create_cert(...)))
RECURSIVE CreateLoop(_, _)
CreateLoop(dir, names) ==
    IF names = <<>> THEN [dir |-> dir, created |-> <<>>]
    ELSE LET rest == CreateLoop(create_cert(dir, Head(names)), Tail(names))
         IN  [dir |-> rest.dir, created |-> <<Head(names)>> \o rest.created]

\* for name in sorted(to_delete): if delete_cert(...): deleted.append(...)
RECURSIVE DeleteLoop(_, _)
DeleteLoop(dir, names) ==
    IF names = <<>> THEN [dir |-> dir, deleted |-> <<>>]
    ELSE LET found == delete_cert_found(dir, Head(names))
             rest  == DeleteLoop(delete_cert(dir, Head(names)), Tail(names))
         IN  [dir |-> rest.dir,
              deleted |-> (IF found THEN <<Head(names)>> ELSE <<>>) \o rest.deleted]

\* Mutant: certificates of every in-scope id that is not verified are deleted.
ToDeleteUnverified(verified, failed, names, existing) ==
    (names \ verified) \cap existing

\* Mutant: the failed set is not restricted to the structure's names.
ToDeleteAnyScope(verified, failed, names, existing) ==
    failed \cap existing

ToDelete(verified, failed, names, existing) ==
    (failed \cap names) \cap existing

\* Mutant: an existing certificate is rewritten (counted as created again).
ToCreateAll(verified, names, existing) ==
    verified \cap names

ToCreate(verified, names, existing) ==
    (verified \cap names) \ existing

\* Mutant: deleted certificates are not subtracted.
FinalCertsNoDeletes(existing, created_list, deleted_list) ==
    Cardinality(existing) + Len(created_list)

\* final_certs = len(existing_certs) + len(created) - len(deleted)
FinalCerts(existing, created_list, deleted_list) ==
    Cardinality(existing) + Len(created_list) - Len(deleted_list)

VerifySync(results, names) ==
    LET certs_dir == certs_verify_dir
        existing == get_existing_certs(Dir(certs_dir))
        tc == ToCreate(results.verified, names, existing)
        td == ToDelete(results.verified, results.failed, names, existing)
        c  == CreateLoop(Dir(certs_dir), sorted(tc))
        d  == DeleteLoop(c.dir, sorted(td))
    IN  /\ verified_funcs' = results.verified
        /\ failed_funcs' = results.failed
        /\ structure_names' = names
        /\ existing_certs' = existing
        /\ to_create' = tc
        /\ to_delete' = td
        /\ created' = c.created
        /\ deleted' = d.deleted
        /\ WriteDir(certs_dir, d.dir)
        /\ final_certs' = FinalCerts(existing, c.created, d.deleted)
        /\ uninterrupted' = d.dir
        /\ pcVerify' = "done"

\* the verification results a run can read, per structure type
VerificationResults ==
    IF structure_type = "blueprint"
    THEN {get_blueprint_verification_results(b) : b \in BlueprintDocs}
    ELSE {get_verification_results(v) : v \in VerificationDocs}

cmd_verify ==
    /\ pcVerify \in {"init", "done", "interrupted"}
    /\ \E results \in VerificationResults :
          VerifySync(results, get_structure_names(structure))
    /\ UNCHANGED <<structure_type, structure, specifyLocals>>
    /\ UNCHANGED exceptLedger

\* cmd_verify whose process exits inside the two loops, after the first k
\* file operations (the creations in sorted order, then the deletions in
\* sorted order); the summary is never computed.
VerifySyncInterrupted(results, names, k) ==
    LET certs_dir == certs_verify_dir
        existing == get_existing_certs(Dir(certs_dir))
        tc == ToCreate(results.verified, names, existing)
        td == ToDelete(results.verified, results.failed, names, existing)
        kc == IF k < Cardinality(tc) THEN k ELSE Cardinality(tc)
        c  == CreateLoop(Dir(certs_dir), SubSeq(sorted(tc), 1, kc))
        d  == DeleteLoop(c.dir, SubSeq(sorted(td), 1, k - kc))
        full == DeleteLoop(CreateLoop(Dir(certs_dir), sorted(tc)).dir, sorted(td))
    IN  /\ k <= Cardinality(tc) + Cardinality(td)
        /\ verified_funcs' = results.verified
        /\ failed_funcs' = results.failed
        /\ structure_names' = names
        /\ existing_certs' = existing
        /\ to_create' = tc
        /\ to_delete' = td
        /\ created' = c.created
        /\ deleted' = d.deleted
        /\ WriteDir(certs_dir, d.dir)
        /\ uninterrupted' = full.dir
        /\ pcVerify' = "interrupted"
        /\ UNCHANGED final_certs

cmd_verify_interrupted ==
    /\ pcVerify \in {"init", "done", "interrupted"}
    /\ \E results \in VerificationResults :
          \E k \in 0..Cardinality(ReportedNames) :
             VerifySyncInterrupted(results, get_structure_names(structure), k)
    /\ UNCHANGED <<structure_type, structure, specifyLocals>>
    /\ UNCHANGED exceptLedger

\* ---------------------------------------------------------------------------
\* cmd_specify
\* ---------------------------------------------------------------------------
\* specs.json: scip-name -> {has_requires, has_ensures}, for the functions
\* the specify tool reports
SpecsDocs ==
    UNION {[ids -> [has_requires : BOOLEAN, has_ensures : BOOLEAN]] :
              ids \in SUBSET ReportedNames}

\* blueprint.json: node id -> type-status, for the nodes it has
BlueprintTypeDocs ==
    UNION {[ns -> {"stated", "mathlib", "can-state"}] : ns \in SUBSET BlueprintNodes}

BLUEPRINT_SPEC_STATUSES == {"stated", "mathlib"}

get_functions_with_specs(specs_data) ==
    {n \in DOMAIN specs_data : specs_data[n].has_requires \/ specs_data[n].has_ensures}

get_blueprint_functions_with_specs(blueprint_data) ==
    {VeriName(n) : n \in {m \in DOMAIN blueprint_data :
                             blueprint_data[m] \in BLUEPRINT_SPEC_STATUSES}}

\* the functions with specs a run can read, per structure type
SpecifyResults ==
    IF structure_type = "blueprint"
    THEN {get_blueprint_functions_with_specs(b) : b \in BlueprintTypeDocs}
    ELSE {get_functions_with_specs(d) : d \in SpecsDocs}

\* display_menu(uncertified_list): the sorted indices the user selects
\* ('all', 'none', numbers and ranges give every subset)
display_menu(functions) == SUBSET (1..Len(functions))

\* Mutant: every offered function is certified, selected or not.
PickedAll(functions, selected_indices, idx) == functions

\* [uncertified_list[idx] for idx in selected_indices], in index order
RECURSIVE Picked(_, _, _)
Picked(functions, selected_indices, idx) ==
    IF idx > Len(functions) THEN <<>>
    ELSE (IF idx \in selected_indices THEN <<functions[idx]>> ELSE <<>>)
            \o Picked(functions, selected_indices, idx + 1)

\* Mutant: functions with specs are offered whether or not the structure
\* tracks them.
FunctionsAnywhere(with_specs, names) == with_specs

\* {name: info for name, info in functions_with_specs.items() if name in structure_names}
FunctionsInStructure(with_specs, names) == with_specs \cap names

SpecifyRun(with_specs, names) ==
    LET certs_dir == certs_specify_dir
        functions_in_structure == FunctionsInStructure(with_specs, names)
        existing == get_existing_certs(Dir(certs_dir))
        todo == functions_in_structure \ existing
        uncertified_list == sorted(todo)
    IN  \E selected_indices \in display_menu(uncertified_list) :
           LET c == CreateLoop(Dir(certs_dir), Picked(uncertified_list, selected_indices, 1))
           IN  /\ functions_with_specs' = with_specs
               /\ specify_names' = names
               /\ uncertified' = todo
               /\ selected' = {uncertified_list[i] : i \in selected_indices}
               /\ WriteDir(certs_dir, c.dir)
               /\ pcSpecify' = "done"

cmd_specify ==
    /\ \E with_specs \in SpecifyResults :
          SpecifyRun(with_specs, get_structure_names(structure))
    /\ UNCHANGED <<structure_type, structure, verifyLocals>>
    /\ UNCHANGED exceptLedger

\* ---------------------------------------------------------------------------
\* Key escaping round trip: encode_name, create_cert, get_existing_certs
\* ---------------------------------------------------------------------------
\* Identifiers are non-empty (every producer of names skips empty ones).
CodecAlphabet == {"/", "%", "2", "F"}
ExampleId == <<"n", "s", ":", "c", "r", "a", "t", "e", "/", "1", ".", "0", "/",
               "m", "o", "d", "#", "f", "u", "n", "c", "(", ")">>
Identifiers == (StringsUpTo(CodecAlphabet, MaxLen) \ {<<>>}) \cup {ExampleId}

InitCodecVars ==
    /\ pcCodec = "start"
    /\ nameX = <<>> /\ nameY = <<>>
    /\ keyX = <<>> /\ keyY = <<>>
    /\ certsX = {} /\ readX = {}

EncodeStep ==
    /\ pcCodec = "start"
    /\ keyX' = encode_name(nameX)
    /\ keyY' = encode_name(nameY)
    /\ pcCodec' = "encoded"
    /\ UNCHANGED <<nameX, nameY, certsX, readX>>
    /\ UNCHANGED exceptCodec

CreateCertStep ==
    /\ pcCodec = "encoded"
    /\ certsX' = create_cert({}, nameX)
    /\ pcCodec' = "stored"
    /\ UNCHANGED <<nameX, nameY, keyX, keyY, readX>>
    /\ UNCHANGED exceptCodec

ReadBackStep ==
    /\ pcCodec = "stored"
    /\ readX' = get_existing_certs(certsX)
    /\ pcCodec' = "read"
    /\ UNCHANGED <<nameX, nameY, keyX, keyY, certsX>>
    /\ UNCHANGED exceptCodec

\* ---------------------------------------------------------------------------
\* Reconciler: generate_scip_index, _update_entry_from_atoms
\* ---------------------------------------------------------------------------
Files == {"a.rs", "b.rs"}
Lines == 1..MaxLine
AtomIds == <<"s1", "s2", "s3", "s4">>

\* One atom of atoms.json; a missing field is None.  lines-start <= lines-end
\* (inclusive 1-indexed range) whenever both are present.
AtomShapes ==
    {[code_path |-> f, lines_start |-> s, lines_end |-> e] :
        f \in Files, s \in Lines, e \in Lines} \cup
    {[code_path |-> None, lines_start |-> 1, lines_end |-> 1],
     [code_path |-> "a.rs", lines_start |-> NoneLine, lines_end |-> 1],
     [code_path |-> "a.rs", lines_start |-> 1, lines_end |-> NoneLine]}

ValidAtom(a) ==
    (a.lines_start # NoneLine /\ a.lines_end # NoneLine) => a.lines_start <= a.lines_end

\* The atom batch in discovery (dict insertion) order: a sequence of
\* [id, code_path, lines_start, lines_end] with pairwise distinct ids.
AtomBatches ==
    UNION {{[i \in 1..n |-> [id |-> AtomIds[i],
                             code_path |-> shapes[i].code_path,
                             lines_start |-> shapes[i].lines_start,
                             lines_end |-> shapes[i].lines_end]] :
              shapes \in [1..n -> {a \in AtomShapes : ValidAtom(a)}]} : n \in 0..MaxAtoms}

Entries ==
    [code_path : Files \cup {Absent, ""},
     code_line : Lines \cup {AbsentLine},
     scip_name : {Absent, "", "s1", "s2", "stale"}]

\* dict.get(key)
Get(d, key) == IF d[key] = Absent THEN None ELSE d[key]
GetLine(d, key) == IF d[key] = AbsentLine THEN NoneLine ELSE d[key]

\* Python's None returned in place of the updated entry
NoneEntry == [code_path |-> None, code_line |-> NoneLine, scip_name |-> None]

HasAtom(atoms, name) == \E i \in 1..Len(atoms) : atoms[i].id = name
AtomOf(atoms, name) == atoms[CHOOSE i \in 1..Len(atoms) : atoms[i].id = name]

\* Mutant: the interval is stored zero-based.
IntervalOfZeroBased(a) == [begin |-> a.lines_start - 1, end |-> a.lines_end, data |-> a.id]

\* Mutant: the interval ends at lines-end (last line excluded).
IntervalOfExclusive(a) == [begin |-> a.lines_start, end |-> a.lines_end, data |-> a.id]

\* trees[code_path].addi(lines_start, lines_end + 1, scip_name)
IntervalOf(a) == [begin |-> a.lines_start, end |-> a.lines_end + 1, data |-> a.id]

Indexed(a) == a.code_path # None /\ a.lines_start # NoneLine /\ a.lines_end # NoneLine

generate_scip_index(atoms) ==
    LET kept == {i \in 1..Len(atoms) : Indexed(atoms[i])}
        paths == {atoms[i].code_path : i \in kept}
    IN  [p \in paths |-> {IntervalOf(atoms[i]) : i \in {j \in kept : atoms[j].code_path = p}}]

\* tree[point]: the set of intervals containing the point
At(tree, point) == {iv \in tree : iv.begin <= point /\ point < iv.end}

\* Mutant: any interval covering the line counts as a match.
ExactMatchesCovering(tree, line_start) == At(tree, line_start)

\* [iv for iv in tree[line_start] if iv.begin == line_start]
ExactMatches(tree, line_start) == {iv \in At(tree, line_start) : iv.begin = line_start}

InitReconVars ==
    /\ pcRecon = "start"
    /\ scip_atoms = <<>>
    /\ scip_index = <<>>
    /\ entry = [code_path |-> Absent, code_line |-> AbsentLine, scip_name |-> Absent]
    /\ updated = NoneEntry
    /\ error = None
    /\ warnings = <<>>

GenerateIndex ==
    /\ pcRecon = "start"
    /\ scip_index' = generate_scip_index(scip_atoms)
    /\ pcRecon' = "indexed"
    /\ UNCHANGED <<scip_atoms, entry, updated, error, warnings>>
    /\ UNCHANGED exceptRecon

\* Mutant: a stale scip-name is cleared when the entry cannot be resolved.
MissingFieldsResultCleared(e) == [e EXCEPT !.scip_name = Absent]

\* "Missing code-path or code-line": return updated (= dict(entry)), None
MissingFieldsResult(e) == e

\* Mutant: the code-line is taken from the end of the atom's range.
OverwriteFromAtomLinesEnd(e, atom) ==
    [e EXCEPT !.code_path = atom.code_path,
              !.code_line = IF atom.lines_end = NoneLine THEN atom.lines_start
                            ELSE atom.lines_end]

\* Mutant: only the code-path is taken from the atom.
OverwriteFromAtomPathOnly(e, atom) == [e EXCEPT !.code_path = atom.code_path]

\* updated['code-path'] = atom_code_path; updated['code-line'] = atom_line_start
OverwriteFromAtom(e, atom) ==
    [e EXCEPT !.code_path = atom.code_path, !.code_line = atom.lines_start]

\* The iteration orders a Python set of Interval objects can have: the order
\* is fixed by hashing and not by insertion, so any arrangement of the atom
\* ids is possible.
Orderings(S) ==
    {p \in [1..Cardinality(S) -> S] : \A i, j \in 1..Cardinality(S) : p[i] = p[j] => i = j}
AtomIdsOf(atoms) == {atoms[i].id : i \in 1..Len(atoms)}
IterationOrders(atoms) == Orderings(AtomIdsOf(atoms))
PositionIn(order, id) == CHOOSE i \in 1..Len(order) : order[i] = id

\* exact_matches[0]: the first exact match in the set's iteration order
FirstMatch(exact_matches, order) ==
    CHOOSE iv \in exact_matches :
        \A other \in exact_matches : PositionIn(order, iv.data) <= PositionIn(order, other.data)

\* Mutant: an id already on the entry is kept when the position resolves.
SetScipNameKeepExisting(e, interval) ==
    IF e.scip_name \in {Absent, ""} THEN [e EXCEPT !.scip_name = interval.data] ELSE e

\* updated['scip-name'] = interval.data
SetScipName(e, interval) == [e EXCEPT !.scip_name = interval.data]

\* _update_entry_from_atoms(entry, scip_index, scip_atoms): the triple
\* (updated, error) with the warnings printed, for one iteration order of the
\* interval set.
update_entry_from_atoms(e, index, atoms, order) ==
    LET code_path == Get(e, "code_path")
        line_start == GetLine(e, "code_line")
        existing_scip_name == Get(e, "scip_name")
        usable == existing_scip_name \notin {None, ""} /\ HasAtom(atoms, existing_scip_name)
    IN  IF usable
        THEN LET atom == AtomOf(atoms, existing_scip_name)
             IN  [updated |-> OverwriteFromAtom(e, atom),
                  error |-> None,
                  warnings |->
                      (IF code_path # atom.code_path THEN <<"code-path mismatch">> ELSE <<>>) \o
                      (IF line_start # atom.lines_start THEN <<"code-line mismatch">> ELSE <<>>)]
        ELSE LET w1 == IF existing_scip_name \notin {None, ""}
                       THEN <<"scip-name not found">> ELSE <<>>
             IN  IF code_path \in {None, ""} \/ line_start = NoneLine
                 THEN [updated |-> MissingFieldsResult(e),
                       error |-> None,
                       warnings |-> w1 \o <<"missing code-path or code-line">>]
                 ELSE IF code_path \notin DOMAIN index
                 THEN [updated |-> NoneEntry,
                       error |-> "code-path not found in scip_index",
                       warnings |-> w1]
                 ELSE LET exact_matches == ExactMatches(index[code_path], line_start)
                      IN  IF exact_matches = {}
                          THEN [updated |-> NoneEntry,
                                error |-> "no interval starting at line",
                                warnings |-> w1]
                          ELSE [updated |-> SetScipName(e, FirstMatch(exact_matches, order)),
                                error |-> None,
                                warnings |-> w1 \o
                                    (IF Cardinality(exact_matches) > 1
                                     THEN <<"multiple intervals">> ELSE <<>>)]

\* One call of _update_entry_from_atoms on the entry, under any iteration
\* order of the interval set.
UpdateEntryFromAtoms ==
    /\ pcRecon = "indexed"
    /\ pcRecon' = "done"
    /\ \E order \in IterationOrders(scip_atoms) :
          LET r == update_entry_from_atoms(entry, scip_index, scip_atoms, order)
          IN  /\ updated' = r.updated
              /\ error' = r.error
              /\ warnings' = r.warnings
    /\ UNCHANGED <<scip_atoms, scip_index, entry>>
    /\ UNCHANGED exceptRecon

\* ---------------------------------------------------------------------------
\* Batch reconciliation: sync_structure_json_with_atoms,
\* sync_structure_files_with_atoms
\* ---------------------------------------------------------------------------
BatchKeys == {"k1", "k2"}
BatchLines == {1, 2}
BatchShapes ==
    {[code_path |-> "a.rs", lines_start |-> 1, lines_end |-> 1],
     [code_path |-> "a.rs", lines_start |-> 1, lines_end |-> 2],
     [code_path |-> "a.rs", lines_start |-> 2, lines_end |-> 2],
     [code_path |-> "a.rs", lines_start |-> 1, lines_end |-> NoneLine]}

\* atom batches of at most two atoms "s1", "s2"
BatchAtoms ==
    UNION {{[i \in 1..n |-> [id |-> AtomIds[i],
                             code_path |-> shapes[i].code_path,
                             lines_start |-> shapes[i].lines_start,
                             lines_end |-> shapes[i].lines_end]] :
              shapes \in [1..n -> BatchShapes]} : n \in {0, 1, 2}}

\* code-path is a path, null (None) or a key the entry does not have
BatchEntries ==
    [code_path : {"a.rs", "b.rs", None, Absent},
     code_line : BatchLines \cup {AbsentLine},
     scip_name : {Absent, "s1", "stale"}]

\* stub collections: keyed mappings of entries (the .md files of the files
\* form carry the same fields in their front matter)
BatchStructures ==
    UNION {[keys -> BatchEntries] : keys \in {{}, {"k1"}, {"k1", "k2"}}}

\* sync_structure_json_with_atoms(structure, scip_index, scip_atoms)
sync_structure_json_with_atoms(json, index, atoms, order) ==
    LET R(k) == update_entry_from_atoms(json[k], index, atoms, order)
        failed == {k \in DOMAIN json : R(k).error # None}
    IN  [result |-> [k \in DOMAIN json |-> IF k \in failed THEN json[k] ELSE R(k).updated],
         updated_count |-> Cardinality(DOMAIN json \ failed),
         not_found_count |-> Cardinality(failed)]

\* post['code-path'] = updated['code-path']; post['code-line'] =
\* updated['code-line']: a KeyError when the returned entry lacks the key
RaisesKeyError(upd) == upd.code_path = Absent \/ upd.code_line = AbsentLine

\* sync_structure_files_with_atoms(scip_index, scip_atoms, structure_root);
\* walk is the order in which rglob yields the files.  The exception leaves
\* the loop at the first file that raises, after the files before it have
\* been written and before the counts are printed.
sync_structure_files_with_atoms(files, index, atoms, order, walk) ==
    LET R(k) == update_entry_from_atoms(files[k], index, atoms, order)
        raises == {i \in 1..Len(walk) :
                      R(walk[i]).error = None /\ RaisesKeyError(R(walk[i]).updated)}
        stop == IF raises = {} THEN Len(walk) + 1
                ELSE CHOOSE i \in raises : \A j \in raises : i <= j
        processed == {walk[i] : i \in 1..(stop - 1)}
        failed == {k \in processed : R(k).error # None}
    IN  [files |-> [k \in DOMAIN files |->
                       IF k \in processed \ failed THEN R(k).updated ELSE files[k]],
         updated_count |-> Cardinality(processed \ failed),
         not_found_count |-> Cardinality(failed),
         outcome |-> IF raises = {} THEN "ok" ELSE "KeyError"]

InitBatchVars ==
    /\ structure_entries = <<>>
    /\ set_order = <<>>
    /\ result = <<>> /\ updated_count = 0 /\ not_found_count = 0
    /\ result_again = <<>>
    /\ md_files = <<>> /\ files_updated_count = 0 /\ files_not_found_count = 0
    /\ files_outcome = None
    /\ pcJson = "start" /\ pcFiles = "start"

\* cmd_atomize with structure-form json
SyncJson ==
    /\ pcRecon = "indexed" /\ pcJson = "start"
    /\ LET r == sync_structure_json_with_atoms(structure_entries, scip_index, scip_atoms, set_order)
       IN  /\ result' = r.result
           /\ updated_count' = r.updated_count
           /\ not_found_count' = r.not_found_count
    /\ pcJson' = "done"
    /\ UNCHANGED <<structure_entries, set_order, result_again, md_files, files_updated_count,
                   files_not_found_count, files_outcome, pcFiles>>
    /\ UNCHANGED <<reconVars, exceptBatch>>

\* cmd_atomize run again on the structure it wrote, with the same atoms
SyncJsonAgain ==
    /\ pcJson = "done"
    /\ result_again' =
          sync_structure_json_with_atoms(result, scip_index, scip_atoms, set_order).result
    /\ pcJson' = "again"
    /\ UNCHANGED <<structure_entries, set_order, result, updated_count, not_found_count,
                   md_files, files_updated_count, files_not_found_count, files_outcome, pcFiles>>
    /\ UNCHANGED <<reconVars, exceptBatch>>

\* cmd_atomize with structure-form files
SyncFiles ==
    /\ pcRecon = "indexed" /\ pcFiles = "start"
    /\ \E walk \in Orderings(DOMAIN structure_entries) :
          LET r == sync_structure_files_with_atoms(structure_entries, scip_index, scip_atoms,
                                                   set_order, walk)
          IN  /\ md_files' = r.files
              /\ files_updated_count' = r.updated_count
              /\ files_not_found_count' = r.not_found_count
              /\ files_outcome' = r.outcome
    /\ pcFiles' = "done"
    /\ UNCHANGED <<structure_entries, set_order, result, updated_count, not_found_count,
                   result_again, pcJson>>
    /\ UNCHANGED <<reconVars, exceptBatch>>

\* ---------------------------------------------------------------------------
\* Verification result extraction from the two shapes of a verification batch
\* ---------------------------------------------------------------------------
\* A verification batch: which ids were checked and whether each verified.
VerificationBatches ==
    UNION {[ids -> BOOLEAN] : ids \in SUBSET (ScipNames \cup {NoName})}

\* shape (a): a mapping keyed by atom id to {verified: bool}
AsMapping(batch) == [shape |-> "mapping", verified |-> batch]

\* shape (b): verification.verified_functions / verification.failed_functions
AsLists(batch) ==
    [shape |-> "lists",
     verification |-> [verified_functions |-> {n \in DOMAIN batch : batch[n]},
                       failed_functions   |-> {n \in DOMAIN batch : ~batch[n]}]]

NoResults == [verified |-> {}, failed |-> {}]

InitExtractVars ==
    /\ mapping_data = AsMapping(<<>>)
    /\ lists_data = AsLists(<<>>)
    /\ mapping_results = NoResults
    /\ lists_results = NoResults
    /\ pcMapping = "start" /\ pcLists = "start"

ExtractFromMapping ==
    /\ pcMapping = "start"
    /\ mapping_results' = get_verification_results(mapping_data)
    /\ pcMapping' = "done"
    /\ UNCHANGED <<mapping_data, lists_data, lists_results, pcLists>>
    /\ UNCHANGED exceptExtract

ExtractFromLists ==
    /\ pcLists = "start"
    /\ lists_results' = get_verification_results(lists_data)
    /\ pcLists' = "done"
    /\ UNCHANGED <<mapping_data, lists_data, mapping_results, pcMapping>>
    /\ UNCHANGED exceptExtract

\* ---------------------------------------------------------------------------
\* Graph decoder: get_node_info, parse_attributes, parse_node_element,
\* parse_edge_element, get_dep_graph_string, get_dep_graph,
\* generate_blueprint_json, blueprint_to_structure, cmd_create
\* ---------------------------------------------------------------------------
\* A DOT payload is the text between the backticks of .renderDot(`...`): its
\* first characters (the preamble), whether it has a closing brace, and the
\* statements between the two, separated by ';'.
Preamble == "strict digraph \"\" {"
OtherPreamble == "strict digraph G {"

\* The attribute list of a statement is the text between its brackets: the
\* key=value pairs in the order they are written.
AttrKeys == <<"shape", "color", "fillcolor", "label", "style">>

\* the attribute list that writes the attributes of `values` (Absent: not
\* written) in the order `order`
AttrString(values, order) ==
    LET Written(key) == values[key] # Absent
        written == SelectSeq(order, Written)
    IN  [i \in 1..Len(written) |-> <<written[i], values[written[i]]>>]

\* One statement: a node `id [attr_string]` or an edge
\* `source -> target [attr_string]`.
NodeStatementIn(order, id, values) ==
    [stmt |-> "node", id |-> id, attr_string |-> AttrString(values, order),
     source |-> Absent, target |-> Absent]
NodeStatement(id, shape, color, fillcolor, label, style) ==
    NodeStatementIn(AttrKeys, id,
        [shape |-> shape, color |-> color, fillcolor |-> fillcolor,
         label |-> label, style |-> style])
EdgeStatement(source, target, style) ==
    [stmt |-> "edge", id |-> Absent, attr_string |-> AttrString([style |-> style], <<"style">>),
     source |-> source, target |-> target]

GoodNode(id) == NodeStatement(id, "ellipse", "green", "#1CAC78", id, "filled")

GraphBodies ==
    {<<>>,
     <<GoodNode("a")>>,
     <<GoodNode("a"), NodeStatement("b", "box", "blue", Absent, "b", Absent),
       EdgeStatement("a", "b", "dashed"), EdgeStatement("b", "a", Absent)>>,
     <<GoodNode("a"), EdgeStatement("a", "c", Absent)>>,
     <<NodeStatement("a", "diamond", "green", "#1CAC78", "a", "filled")>>}

Payloads ==
    [preamble : {Preamble, OtherPreamble}, elements : GraphBodies, closing : BOOLEAN]

\* Python's None in place of the payload
NoneDot == [preamble |-> None, elements |-> <<>>, closing |-> FALSE]

\* A script element: whether its text contains ".renderDot(`strict digraph"
\* (marker), whether the call is closed by "`)" so that the pattern
\* \.renderDot\(`([^`]*)`\) matches (closed), and the text captured then.
Scripts ==
    {[marker |-> FALSE, closed |-> FALSE, dot |-> NoneDot]} \cup
    [marker : {TRUE}, closed : BOOLEAN, dot : Payloads]

Doms == UNION {[1..n -> Scripts] : n \in {0, 1, 2}}

\* the document whose only script holds a well-formed payload with the
\* statements `elements`
DomOf(elements) ==
    <<[marker |-> TRUE, closed |-> TRUE,
       dot |-> [preamble |-> Preamble, elements |-> elements, closing |-> TRUE]]>>

\* A dep-modal-container div: its id, written as the sequence of its parts,
\* and the number of its children. No part other than Suffix ends with Suffix.
Suffix == "_modal"

RECURSIVE Join(_)
Join(parts) == IF parts = <<>> THEN "" ELSE Head(parts) \o Join(Tail(parts))

Div(parts, children) == [id |-> parts, children |-> children]
ModalOf(id) == Div(<<id, Suffix>>, 1)

\* div_id.endswith('_modal')
EndsWithSuffix(parts) == parts # <<>> /\ parts[Len(parts)] = Suffix

\* div_id.replace('_modal', ''): str.replace removes every occurrence
ReplaceSuffix(parts) ==
    LET Kept(part) == part # Suffix
    IN  Join(SelectSeq(parts, Kept))

\* html.tostring(div[0]): the content of a container, named after the container
ContentOf(div) == "content of " \o Join(div.id)

\* get_node_info(dom): the dict of stripped id -> content, or the ValueError
RECURSIVE get_node_info_loop(_, _)
get_node_info_loop(modal_divs_left, ids) ==
    IF modal_divs_left = <<>> THEN [raised |-> None, ids |-> ids]
    ELSE LET div == Head(modal_divs_left)
         IN  IF div.children # 1
             THEN [raised |-> "Div has children, expected 1", ids |-> ids]
             ELSE IF EndsWithSuffix(div.id)
             THEN get_node_info_loop(Tail(modal_divs_left),
                     [x \in DOMAIN ids \cup {ReplaceSuffix(div.id)} |->
                         IF x = ReplaceSuffix(div.id) THEN ContentOf(div) ELSE ids[x]])
             ELSE [raised |-> "Div ID does not end with _modal", ids |-> ids]

get_node_info(divs) == get_node_info_loop(divs, <<>>)

\* get_dep_graph_string(dom): the payload of the first script that has the
\* marker and whose call pattern matches, or None
get_dep_graph_string(scripts) ==
    LET hits == {i \in 1..Len(scripts) : scripts[i].marker /\ scripts[i].closed}
    IN  IF hits = {} THEN NoneDot
        ELSE scripts[CHOOSE i \in hits : \A j \in hits : i <= j].dot

\* Mutant: the i-th pair written is filed under the i-th key of AttrKeys.
parse_attributes_positional(attr_string) ==
    [key \in {AttrKeys[i] : i \in 1..Len(attr_string)} |->
        attr_string[CHOOSE i \in 1..Len(attr_string) : AttrKeys[i] = key][2]]

\* attrs[key] = value for every pair, in the order written: the dict of the
\* keys written, each with the value written last
parse_attributes(attr_string) ==
    [key \in {attr_string[i][1] : i \in 1..Len(attr_string)} |->
        attr_string[CHOOSE i \in 1..Len(attr_string) :
                        /\ attr_string[i][1] = key
                        /\ \A j \in 1..Len(attr_string) :
                              attr_string[j][1] = key => j <= i][2]]

\* attributes[key] if 'key' in attributes, Absent otherwise
AttributeOf(attributes, key) ==
    IF key \in DOMAIN attributes THEN attributes[key] ELSE Absent

parse_node_element(line) ==
    [id |-> line.id, attributes |-> parse_attributes(line.attr_string)]

parse_edge_element(line) ==
    [source |-> line.source, target |-> line.target,
     style |-> AttributeOf(parse_attributes(line.attr_string), "style")]

color_map(color) ==
    CASE color = "green" -> "stated"
      [] color = "blue" -> "can-state"
      [] color = "#FFAA33" -> "not-ready"
      [] color = "darkgreen" -> "mathlib"
      [] OTHER -> "unrecognized"

fillcolor_map(fillcolor) ==
    CASE fillcolor = "#9CEC8B" -> "proved"
      [] fillcolor = "#B0ECA3" -> "defined"
      [] fillcolor = "#A3D6FF" -> "can-prove"
      [] fillcolor = "#1CAC78" -> "fully-proved"
      [] OTHER -> "unrecognized"

\* Mutant: the style of a node is not looked at.
NodeErrorAnyStyle(node_attr) ==
    LET shape == AttributeOf(node_attr.attributes, "shape")
        label == AttributeOf(node_attr.attributes, "label")
    IN  IF shape = Absent THEN "Node missing shape attribute"
        ELSE IF shape \notin {"ellipse", "box"} THEN "Unknown shape"
        ELSE IF label = Absent THEN "No label found in node attributes"
        ELSE IF label # node_attr.id THEN "Node label mismatch"
        ELSE None

\* the ValueError a parsed node statement raises, or None
NodeError(node_attr) ==
    LET shape == AttributeOf(node_attr.attributes, "shape")
        label == AttributeOf(node_attr.attributes, "label")
        style == AttributeOf(node_attr.attributes, "style")
    IN  IF shape = Absent THEN "Node missing shape attribute"
        ELSE IF shape \notin {"ellipse", "box"} THEN "Unknown shape"
        ELSE IF label = Absent THEN "No label found in node attributes"
        ELSE IF label # node_attr.id THEN "Node label mismatch"
        ELSE IF style # Absent /\ style # "filled" THEN "Unknown style"
        ELSE None

\* the attributes stored for a parsed node statement that raises nothing
NodeAttributes(node_attr) ==
    LET shape == AttributeOf(node_attr.attributes, "shape")
        color == AttributeOf(node_attr.attributes, "color")
        fillcolor == AttributeOf(node_attr.attributes, "fillcolor")
    IN  [kind |-> IF shape = "ellipse" THEN "theorem" ELSE "definition",
         content |-> "",
         type_status |-> IF color = Absent THEN "unknown" ELSE color_map(color),
         term_status |-> IF fillcolor = Absent THEN "unknown" ELSE fillcolor_map(fillcolor),
         type_dependencies |-> <<>>,
         term_dependencies |-> <<>>]

\* d[k] = v
Put(d, k, v) == [x \in DOMAIN d \cup {k} |-> IF x = k THEN v ELSE d[x]]

\* Mutant: every edge statement is kept, repeated or not.
PutEdgeAppend(edges, el) == Append(edges, el)

\* edges[f"{source}->{target}"] = attributes: a dict in insertion order
PutEdge(edges, el) ==
    LET same == {i \in 1..Len(edges) :
                    edges[i].source = el.source /\ edges[i].target = el.target}
    IN  IF same = {} THEN Append(edges, el)
        ELSE [i \in 1..Len(edges) |-> IF i \in same THEN el ELSE edges[i]]

\* the loop over the statements of the payload
RECURSIVE ParseElements(_, _)
ParseElements(elements, acc) ==
    IF elements = <<>> \/ acc.raised # None THEN acc
    ELSE LET el == Head(elements)
         IN  IF el.stmt = "node"
             THEN LET node_attr == parse_node_element(el)
                  IN  IF NodeError(node_attr) # None
                      THEN [acc EXCEPT !.raised = NodeError(node_attr)]
                      ELSE ParseElements(Tail(elements),
                              [acc EXCEPT !.nodes = Put(acc.nodes, node_attr.id,
                                                        NodeAttributes(node_attr))])
             ELSE ParseElements(Tail(elements),
                          [acc EXCEPT !.edges = PutEdge(acc.edges, parse_edge_element(el))])

\* nodes[node_id]['content'] = content, for the items of node_info
WithContent(nodes, info) ==
    [id \in DOMAIN nodes |->
        IF id \in DOMAIN info THEN [nodes[id] EXCEPT !.content = info[id]] ELSE nodes[id]]

\* Mutant: only the source of an edge has to be a parsed node.
EndpointsDeclaredSourceOnly(e, nodes) == e.source \in DOMAIN nodes

\* not (source not in nodes or target not in nodes)
EndpointsDeclared(e, nodes) == e.source \in DOMAIN nodes /\ e.target \in DOMAIN nodes

\* the loop over the edges
RECURSIVE AddEdges(_, _)
AddEdges(edges, acc) ==
    IF edges = <<>> \/ acc.raised # None THEN acc
    ELSE LET e == Head(edges)
         IN  IF ~EndpointsDeclared(e, acc.nodes)
             THEN [acc EXCEPT !.raised = "Source or target node not found"]
             ELSE IF e.style = "dashed"
             THEN AddEdges(Tail(edges),
                     [acc EXCEPT !.nodes[e.source].type_dependencies = Append(@, e.target)])
             ELSE AddEdges(Tail(edges),
                     [acc EXCEPT !.nodes[e.source].term_dependencies = Append(@, e.target)])

\* what get_dep_graph returns: the node mapping, or nothing when it raised
Returned(nodes) == [raised |-> None, nodes |-> nodes]
Raised(exception) == [raised |-> exception, nodes |-> <<>>]

\* get_dep_graph(dom, node_info)
get_dep_graph(scripts, info) ==
    LET renderdot_string == get_dep_graph_string(scripts)
    IN  IF renderdot_string = NoneDot THEN Returned(<<>>)
        ELSE IF renderdot_string.preamble # Preamble THEN Returned(<<>>)
        ELSE IF ~renderdot_string.closing THEN Returned(<<>>)
        ELSE LET parsed == ParseElements(renderdot_string.elements,
                              [raised |-> None, nodes |-> <<>>, edges |-> <<>>])
             IN  IF parsed.raised # None THEN Raised(parsed.raised)
                 ELSE IF DOMAIN info \ DOMAIN parsed.nodes # {}
                 THEN Raised("Node ID from node_info not found in parsed nodes")
                 ELSE LET linked == AddEdges(parsed.edges,
                                       [raised |-> None,
                                        nodes |-> WithContent(parsed.nodes, info)])
                      IN  IF linked.raised # None THEN Raised(linked.raised)
                          ELSE Returned(linked.nodes)

\* node_info = get_node_info(dom); nodes = get_dep_graph(dom, node_info): an
\* exception of the first leaves generate_blueprint_json before the second.
DecodeDocument(scripts, divs) ==
    LET info == get_node_info(divs)
    IN  IF info.raised # None THEN Raised(info.raised)
        ELSE get_dep_graph(scripts, info.ids)

\* Mutant: the dependencies keep the blueprint ids.
blueprint_to_structure_plain_ids(blueprint_data) ==
    LET IdOf(file_path) == CHOOSE id \in DOMAIN blueprint_data : id \o ".md" = file_path
    IN  [file_path \in {id \o ".md" : id \in DOMAIN blueprint_data} |->
            [veri_name |-> "veri:" \o IdOf(file_path),
             dependencies |-> blueprint_data[IdOf(file_path)].type_dependencies \o
                              blueprint_data[IdOf(file_path)].term_dependencies,
             content |-> blueprint_data[IdOf(file_path)].content]]

\* blueprint_to_structure(blueprint_data): file path -> entry
blueprint_to_structure(blueprint_data) ==
    LET IdOf(file_path) == CHOOSE id \in DOMAIN blueprint_data : id \o ".md" = file_path
        Deps(id) == blueprint_data[id].type_dependencies \o
                    blueprint_data[id].term_dependencies
    IN  [file_path \in {id \o ".md" : id \in DOMAIN blueprint_data} |->
            [veri_name |-> "veri:" \o IdOf(file_path),
             dependencies |-> [i \in 1..Len(Deps(IdOf(file_path))) |->
                                  "veri:" \o Deps(IdOf(file_path))[i]],
             content |-> blueprint_data[IdOf(file_path)].content]]

\* config.json before any create run
NoConfig == [structure_type |-> None, structure_form |-> None, structure_root |-> None]

InitGraphVars ==
    /\ dom = <<>>
    /\ modal_divs = <<>>
    /\ args_form = "json"
    /\ node_info = <<>>
    /\ decoded = Returned(<<>>)
    /\ blueprint_written = FALSE
    /\ blueprint_json = <<>>
    /\ config_json = NoConfig
    /\ structure_output = <<>>
    /\ pcGraph = "start"

\* generate_blueprint_json(project_root, output_path): an exception of
\* get_node_info or get_dep_graph leaves the function before blueprint.json is
\* written.
generate_blueprint_json ==
    /\ pcGraph = "start"
    /\ LET info == get_node_info(modal_divs)
           nodes == DecodeDocument(dom, modal_divs)
       IN  /\ node_info' = IF info.raised = None THEN info.ids ELSE node_info
           /\ decoded' = nodes
           /\ blueprint_written' = (nodes.raised = None)
           /\ blueprint_json' = IF nodes.raised = None THEN nodes.nodes ELSE blueprint_json
    /\ pcGraph' = "done"
    /\ UNCHANGED <<dom, modal_divs, args_form, config_json, structure_output>>
    /\ UNCHANGED exceptGraph

\* Mutant: config.json is written before the document is decoded.
cmd_create_config_first ==
    /\ pcGraph = "start"
    /\ LET info == get_node_info(modal_divs)
           blueprint_data == DecodeDocument(dom, modal_divs)
       IN  /\ node_info' = IF info.raised = None THEN info.ids ELSE node_info
           /\ decoded' = blueprint_data
           /\ IF blueprint_data.raised = None
              THEN /\ blueprint_written' = TRUE
                   /\ blueprint_json' = blueprint_data.nodes
                   /\ structure_output' = blueprint_to_structure(blueprint_data.nodes)
              ELSE UNCHANGED <<blueprint_written, blueprint_json, structure_output>>
           /\ config_json' = [structure_type |-> "blueprint",
                              structure_form |-> args_form,
                              structure_root |-> "blueprint"]
    /\ pcGraph' = "done"
    /\ UNCHANGED <<dom, modal_divs, args_form>>
    /\ UNCHANGED exceptGraph

\* cmd_create(args) with args.type == "blueprint", leanblueprint installed and
\* `leanblueprint web` successful: generate_blueprint_json, then
\* blueprint_to_structure, then config.json, then the structure output
\* (generate_structure_json or generate_structure_files, by args.form). An
\* exception of generate_blueprint_json ends the run there.
cmd_create ==
    /\ pcGraph = "start"
    /\ LET info == get_node_info(modal_divs)
           blueprint_data == DecodeDocument(dom, modal_divs)
       IN  /\ node_info' = IF info.raised = None THEN info.ids ELSE node_info
           /\ decoded' = blueprint_data
           /\ IF blueprint_data.raised = None
              THEN /\ blueprint_written' = TRUE
                   /\ blueprint_json' = blueprint_data.nodes
                   /\ config_json' = [structure_type |-> "blueprint",
                                      structure_form |-> args_form,
                                      structure_root |-> "blueprint"]
                   /\ structure_output' = blueprint_to_structure(blueprint_data.nodes)
              ELSE UNCHANGED <<blueprint_written, blueprint_json, config_json,
                               structure_output>>
    /\ pcGraph' = "done"
    /\ UNCHANGED <<dom, modal_divs, args_form>>
    /\ UNCHANGED exceptGraph

\* ---------------------------------------------------------------------------
\* Tracked functions: tweak_disambiguate, tracked_to_structure and the
\* dalek-lite branch of cmd_create
\* ---------------------------------------------------------------------------
\* A tracked function is one item of the dict read_tracked_csv returns, in
\* insertion order: its key function::module, its qualified name (value[5])
\* written as the sequence of its parts, and the code path and line of its
\* link (value[4]; the path is "" for a link without /blob/main/).
QualifiedName(value) == Join(value.qualified_name)

\* name_counts = Counter(qualified_names); the names counted more than once
Duplicates(rows) ==
    {QualifiedName(rows[i]) :
        i \in {j \in 1..Len(rows) :
                 \E k \in 1..Len(rows) :
                    k # j /\ QualifiedName(rows[k]) = QualifiedName(rows[j])}}

\* the loop over tracked.items(): new_name = f"{qualified_name}_{index}"
RECURSIVE tweak_loop(_, _, _)
tweak_loop(rows, duplicates, name_indices) ==
    IF rows = <<>> THEN <<>>
    ELSE LET value == Head(rows)
             qualified_name == QualifiedName(value)
         IN  IF qualified_name \in duplicates
             THEN <<[value EXCEPT !.qualified_name =
                        Append(@, "_" \o ToString(name_indices[qualified_name]))]>>
                  \o tweak_loop(Tail(rows), duplicates,
                                [name_indices EXCEPT ![qualified_name] = @ + 1])
             ELSE <<value>> \o tweak_loop(Tail(rows), duplicates, name_indices)

\* tweak_disambiguate(tracked)
tweak_disambiguate(rows) ==
    IF Duplicates(rows) = {} THEN rows
    ELSE tweak_loop(rows, Duplicates(rows), [name \in Duplicates(rows) |-> 0])

\* qualified_name.replace('::', '.')
FuncName(value) ==
    Join([i \in 1..Len(value.qualified_name) |->
             IF value.qualified_name[i] = "::" THEN "." ELSE value.qualified_name[i]])

\* tracked_to_structure(tracked): file path -> entry; an item without code
\* path is skipped, a later item with the same file path replaces the earlier
RECURSIVE tracked_to_structure_loop(_, _)
tracked_to_structure_loop(rows, acc) ==
    IF rows = <<>> THEN acc
    ELSE LET value == Head(rows)
             file_path == value.code_path \o "/" \o FuncName(value) \o ".md"
         IN  IF value.code_path = ""
             THEN tracked_to_structure_loop(Tail(rows), acc)
             ELSE tracked_to_structure_loop(Tail(rows),
                     Put(acc, file_path,
                         [code_line |-> value.code_line, code_path |-> value.code_path,
                          scip_name |-> None]))

tracked_to_structure(rows) == tracked_to_structure_loop(rows, <<>>)

InitTrackedVars ==
    /\ tracked = <<>>
    /\ disambiguated = <<>>
    /\ pcTracked = "start"

\* cmd_create(args) with args.type == "dalek-lite" and no --root, the
\* tracked functions CSV generated: read_tracked_csv, tweak_disambiguate,
\* tracked_to_structure, then config.json, then the structure output.
cmd_create_dalek_lite ==
    /\ pcTracked = "start"
    /\ disambiguated' = tweak_disambiguate(tracked)
    /\ config_json' = [structure_type |-> "dalek-lite", structure_form |-> args_form,
                       structure_root |-> ".verilib"]
    /\ structure_output' = tracked_to_structure(tweak_disambiguate(tracked))
    /\ pcTracked' = "done"
    /\ UNCHANGED <<tracked, dom, modal_divs, args_form, node_info, decoded,
                   blueprint_written, blueprint_json, pcGraph>>
    /\ UNCHANGED exceptTracked

\* ---------------------------------------------------------------------------
\* Specifications
\* ---------------------------------------------------------------------------
InitLedgerVars ==
    /\ structure_type \in {"dalek-lite", "blueprint"}
    /\ structure = {}
    /\ certs = {}
    /\ verified_funcs = {} /\ failed_funcs = {} /\ structure_names = {}
    /\ existing_certs = {} /\ to_create = {} /\ to_delete = {}
    /\ created = <<>> /\ deleted = <<>>
    /\ final_certs = 0
    /\ pcVerify = "init"
    /\ uninterrupted = {}
    /\ certs_specify = {}
    /\ functions_with_specs = {} /\ specify_names = {} /\ uncertified = {} /\ selected = {}
    /\ pcSpecify = "init"

\* The certificate ledger driven by cmd_verify runs, from an empty store.
Init == InitLedgerVars /\ InitCodecVars /\ InitReconVars /\ InitBatchVars /\ InitExtractVars /\ InitGraphVars /\ InitTrackedVars
Next == generate_structure_json \/ cmd_verify
Spec == Init /\ [][Next]_vars


\* The specify ledger driven by cmd_specify runs, from an empty store.
NextSpecify == generate_structure_json \/ cmd_specify
SpecSpecify == Init /\ [][NextSpecify]_vars

\* Both ledgers of one project, their runs interleaved in any order.
InitLedgers ==
    /\ InitCodecVars /\ InitReconVars /\ InitBatchVars /\ InitExtractVars /\ InitGraphVars /\ InitTrackedVars
    /\ structure_type \in {"dalek-lite", "blueprint"}
    /\ structure \in StructureDocs
    /\ certs = {}
    /\ verified_funcs = {} /\ failed_funcs = {} /\ structure_names = {}
    /\ existing_certs = {} /\ to_create = {} /\ to_delete = {}
    /\ created = <<>> /\ deleted = <<>>
    /\ final_certs = 0
    /\ pcVerify = "init"
    /\ uninterrupted = {}
    /\ certs_specify = {}
    /\ functions_with_specs = {} /\ specify_names = {} /\ uncertified = {} /\ selected = {}
    /\ pcSpecify = "init"
NextLedgers == cmd_verify \/ cmd_specify
SpecLedgers == InitLedgers /\ [][NextLedgers]_vars

\* The verify ledger over one persisted structure, with runs that are killed
\* inside their loops.
NextInterrupt == cmd_verify \/ cmd_verify_interrupted
SpecInterrupt == InitLedgers /\ [][NextInterrupt]_vars

\* The key escaping applied to every pair of identifiers.
InitCodec ==
    /\ InitLedgerVars /\ structure_type = "dalek-lite"
    /\ InitReconVars /\ InitBatchVars /\ InitExtractVars /\ InitGraphVars /\ InitTrackedVars
    /\ pcCodec = "start"
    /\ nameX \in Identifiers /\ nameY \in Identifiers
    /\ keyX = <<>> /\ keyY = <<>>
    /\ certsX = {} /\ readX = {}
NextCodec == EncodeStep \/ CreateCertStep \/ ReadBackStep
SpecCodec == InitCodec /\ [][NextCodec]_vars

\* One entry reconciled against one atom batch.
InitRecon ==
    /\ InitLedgerVars /\ structure_type = "dalek-lite"
    /\ InitCodecVars /\ InitBatchVars /\ InitExtractVars /\ InitGraphVars /\ InitTrackedVars
    /\ pcRecon = "start"
    /\ scip_atoms \in AtomBatches
    /\ entry \in Entries
    /\ scip_index = <<>>
    /\ updated = NoneEntry
    /\ error = None
    /\ warnings = <<>>
NextRecon == GenerateIndex \/ UpdateEntryFromAtoms
SpecRecon == InitRecon /\ [][NextRecon]_vars

\* A stub collection reconciled against one atom batch, in both forms.
InitBatch ==
    /\ InitLedgerVars /\ structure_type = "dalek-lite"
    /\ InitCodecVars /\ InitExtractVars /\ InitGraphVars /\ InitTrackedVars
    /\ pcRecon = "start"
    /\ scip_atoms \in BatchAtoms
    /\ scip_index = <<>>
    /\ entry = [code_path |-> Absent, code_line |-> AbsentLine, scip_name |-> Absent]
    /\ updated = NoneEntry /\ error = None /\ warnings = <<>>
    /\ structure_entries \in BatchStructures
    /\ set_order \in IterationOrders(scip_atoms)
    /\ result = <<>> /\ updated_count = 0 /\ not_found_count = 0
    /\ result_again = <<>>
    /\ md_files = <<>> /\ files_updated_count = 0 /\ files_not_found_count = 0
    /\ files_outcome = None
    /\ pcJson = "start" /\ pcFiles = "start"
NextBatch == GenerateIndex \/ SyncJson \/ SyncJsonAgain \/ SyncFiles
SpecBatch == InitBatch /\ [][NextBatch]_vars

\* One verification batch handed to the extractor in each of its two shapes.
InitExtract ==
    /\ InitLedgerVars /\ structure_type = "dalek-lite"
    /\ InitCodecVars /\ InitReconVars /\ InitBatchVars /\ InitGraphVars /\ InitTrackedVars
    /\ \E batch \in VerificationBatches :
          /\ mapping_data = AsMapping(batch)
          /\ lists_data = AsLists(batch)
    /\ mapping_results = NoResults
    /\ lists_results = NoResults
    /\ pcMapping = "start" /\ pcLists = "start"
NextExtract == ExtractFromMapping \/ ExtractFromLists
SpecExtract == InitExtract /\ [][NextExtract]_vars

\* One dependency-graph document decoded into blueprint.json.
InitGraph ==
    /\ InitLedgerVars /\ structure_type = "blueprint"
    /\ InitCodecVars /\ InitReconVars /\ InitBatchVars /\ InitExtractVars /\ InitTrackedVars
    /\ dom \in Doms
    /\ modal_divs \in {<<>>, <<ModalOf("a")>>, <<ModalOf("a"), ModalOf("b")>>}
    /\ args_form = "json"
    /\ node_info = <<>>
    /\ decoded = Returned(<<>>)
    /\ blueprint_written = FALSE
    /\ blueprint_json = <<>>
    /\ config_json = NoConfig
    /\ structure_output = <<>>
    /\ pcGraph = "start"
NextGraph == generate_blueprint_json
SpecGraph == InitGraph /\ [][NextGraph]_vars

\* ===========================================================================
\* Properties of the certificate ledger (Spec)
\* ===========================================================================
Range(seq) == {seq[i] : i \in 1..Len(seq)}

\* identifiers that have a certificate in the store now
CertNames == get_existing_certs(certs)

\* C1 (as stated): after a verify sync the deleted certificates are exactly
\* (scope - qualifying) \cap existing, so no in-scope identifier absent from
\* the verified set still has a certificate.
C1_DeletesAllUnverifiedInScope ==
    pcVerify = "done" =>
        /\ Range(deleted) = (structure_names \ verified_funcs) \cap existing_certs
        /\ \A n \in structure_names \ verified_funcs : n \notin CertNames

\* C1 (amended): a verify sync deletes exactly (failed \cap scope) \cap existing;
\* afterwards none of these has a certificate, and every certificate of an
\* in-scope identifier that is not in the failed set is still there.
C1_DeletesFailedInScope ==
    pcVerify = "done" =>
        /\ Range(deleted) = (failed_funcs \cap structure_names) \cap existing_certs
        /\ \A n \in (failed_funcs \cap structure_names) \cap existing_certs : n \notin CertNames
        /\ \A n \in (structure_names \cap existing_certs) \ failed_funcs : n \in CertNames

C1_Witness ==
    /\ pcVerify = "done"
    /\ Len(deleted) > 0
    /\ \E n \in (structure_names \cap existing_certs) \ (verified_funcs \cup failed_funcs) :
          n \in CertNames

\* C2: the certificates written by one verify sync are precisely the in-scope
\* verified identifiers that had no certificate, each written once.
C2_CreatesExactly ==
    pcVerify = "done" =>
        /\ Range(created) = (verified_funcs \cap structure_names) \ existing_certs
        /\ Len(created) = Cardinality(Range(created))
        /\ CertNames \ existing_certs = (verified_funcs \cap structure_names) \ existing_certs

C2_Witness ==
    /\ pcVerify = "done"
    /\ verified_funcs = ReportedNames
    /\ structure_names = ScipNames
    /\ existing_certs = {}
    /\ CertNames = ReportedNames

\* C3: a second verify sync with the same verified/failed sets and scope, on
\* the store the first one left, creates nothing, deletes nothing and leaves
\* the certificate count unchanged.
C3_SecondSyncIsNoOp ==
    [][(/\ pcVerify = "done"
        /\ structure_names = get_structure_names(structure)
        /\ structure_names' = structure_names
        /\ verified_funcs' = verified_funcs
        /\ failed_funcs' = failed_funcs
        /\ structure' = structure)
       => (/\ to_create' = {}
           /\ to_delete' = {}
           /\ certs' = certs
           /\ final_certs' = final_certs)]_vars

\* C4: a run changes no certificate whose identifier is outside the scope
\* supplied to that run.
OutOfScope(dir, scope) == {f \in dir : decode_name(Stem(f)) \notin scope}

C4_OutOfScopeUnchanged ==
    [][OutOfScope(certs', get_structure_names(structure))
         = OutOfScope(certs, get_structure_names(structure))]_vars

C4_Witness ==
    /\ pcVerify = "done"
    /\ \E n \in failed_funcs \ structure_names : n \in CertNames
    /\ Len(created) + Len(deleted) > 0

\* C5: the reported total is |existing| + |to_create| - |to_delete| and is the
\* number of certificate files in the store after the run.
C5_TotalCount ==
    pcVerify = "done" =>
        /\ final_certs = Cardinality(existing_certs) + Cardinality(to_create)
                           - Cardinality(to_delete)
        /\ final_certs = Cardinality(certs)

C5_Witness ==
    /\ pcVerify = "done"
    /\ Len(created) > 0
    /\ Len(deleted) > 0
    /\ existing_certs # {}
    /\ final_certs = Cardinality(certs)

\* ===========================================================================
\* Properties of the key escaping (SpecCodec)
\* ===========================================================================
\* C6: decode_name(encode_name(x)) = x, distinct identifiers have distinct
\* keys, and the store read back after create_cert(x) holds exactly x.
C6_EscapingLossless ==
    /\ pcCodec # "start" =>
          /\ decode_name(keyX) = nameX
          /\ (nameX # nameY => keyX # keyY)
    /\ pcCodec = "read" => readX = {nameX}

C6_Witness ==
    /\ pcCodec = "read"
    /\ nameX = ExampleId
    /\ nameY = <<"%", "2", "F">>
    /\ keyX # nameX
    /\ readX = {ExampleId}

\* ===========================================================================
\* Properties of the reconciler (SpecRecon)
\* ===========================================================================
\* the entry carries an atom id that the atom map has
Usable(e) ==
    /\ Get(e, "scip_name") \notin {None, ""}
    /\ HasAtom(scip_atoms, Get(e, "scip_name"))

HasFileAndLine(e) ==
    /\ Get(e, "code_path") \notin {None, ""}
    /\ GetLine(e, "code_line") # NoneLine

BoolToNat(b) == IF b THEN 1 ELSE 0

\* C7: with a usable atom id the entry's file and line become the atom's, the
\* atom id is kept, there is one warning per differing field, and the result
\* is never an error (whatever the index holds).
C7_AtomMapWins ==
    (pcRecon = "done" /\ Usable(entry)) =>
        LET atom == AtomOf(scip_atoms, entry.scip_name)
        IN  /\ error = None
            /\ updated.code_path = atom.code_path
            /\ updated.code_line = atom.lines_start
            /\ updated.scip_name = entry.scip_name
            /\ Len(warnings) = BoolToNat(Get(entry, "code_path") # atom.code_path)
                               + BoolToNat(GetLine(entry, "code_line") # atom.lines_start)

C7_Witness ==
    /\ pcRecon = "done"
    /\ Usable(entry)
    /\ entry.code_path \in Files
    /\ entry.code_path \notin DOMAIN scip_index
    /\ entry.code_line \in Lines
    /\ updated.code_path \in Files
    /\ updated.code_line \in Lines
    /\ Len(warnings) = 2
    /\ error = None

\* the atoms of the batch that the index holds for a file
IndexedAtomsIn(file) ==
    {i \in 1..Len(scip_atoms) : Indexed(scip_atoms[i]) /\ scip_atoms[i].code_path = file}

\* atoms of a file starting at a line, in discovery order
StartingAt(file, line) ==
    {i \in IndexedAtomsIn(file) : scip_atoms[i].lines_start = line}

\* C8: for an entry without usable atom id and with file and line, the result
\* is a resolution failure (error, no updated entry) exactly when the file has
\* no atom in the index or none of its atoms starts at the recorded line.
C8_FailureExactlyWhenNoStart ==
    (pcRecon = "done" /\ ~Usable(entry) /\ HasFileAndLine(entry)) =>
        ((error # None /\ updated = NoneEntry)
           <=> (\/ IndexedAtomsIn(entry.code_path) = {}
                \/ StartingAt(entry.code_path, entry.code_line) = {}))

C8_Witness ==
    /\ pcRecon = "done"
    /\ ~Usable(entry)
    /\ HasFileAndLine(entry)
    /\ error # None
    /\ updated = NoneEntry
    /\ \E i \in IndexedAtomsIn(entry.code_path) :
          /\ scip_atoms[i].lines_start < entry.code_line
          /\ entry.code_line <= scip_atoms[i].lines_end

Min(S) == CHOOSE x \in S : \A y \in S : x <= y

\* C9: with two or more atoms of the recorded file starting at the recorded
\* line, resolution succeeds with a warning and sets the atom id to the first
\* such atom in discovery order.
C9_PicksFirstDiscovered ==
    (/\ pcRecon = "done" /\ ~Usable(entry) /\ HasFileAndLine(entry)
     /\ Cardinality(StartingAt(entry.code_path, entry.code_line)) >= 2) =>
        /\ error = None
        /\ \E i \in 1..Len(warnings) : warnings[i] = "multiple intervals"
        /\ updated.scip_name =
              scip_atoms[Min(StartingAt(entry.code_path, entry.code_line))].id

\* C10 (as stated): without usable atom id and with file or line missing there
\* is a warning, no resolution failure, and the resulting atom id is unset.
C10_MissingFieldsLeaveIdUnset ==
    (pcRecon = "done" /\ ~Usable(entry) /\ ~HasFileAndLine(entry)) =>
        /\ Len(warnings) > 0
        /\ error = None
        /\ updated.scip_name \in {Absent, ""}

\* C10 (amended): without usable atom id and with file or line missing there
\* is a warning, no resolution failure, and the entry is returned as it was:
\* the atom id stays unset if none was recorded, a stale one is kept.
C10_MissingFieldsLeaveEntryAsIs ==
    (pcRecon = "done" /\ ~Usable(entry) /\ ~HasFileAndLine(entry)) =>
        /\ \E i \in 1..Len(warnings) : warnings[i] = "missing code-path or code-line"
        /\ error = None
        /\ updated = entry

C10_Witness ==
    /\ pcRecon = "done"
    /\ ~Usable(entry)
    /\ entry.scip_name = "stale"
    /\ entry.code_path = Absent
    /\ entry.code_line \in Lines
    /\ updated.scip_name = "stale"
    /\ Len(warnings) = 2
    /\ error = None

\* C11: for an entry without usable atom id (none, or a stale one absent from
\* the atom map) and with file and line, when exactly one atom of the file
\* starts at the recorded line the result is a success whose atom id is that
\* atom's id and whose file and line are kept; a stale id is replaced and
\* reported by a warning.
C11_UniqueMatchSetsAtomId ==
    (/\ pcRecon = "done" /\ ~Usable(entry) /\ HasFileAndLine(entry)
     /\ Cardinality(StartingAt(entry.code_path, entry.code_line)) = 1) =>
        /\ error = None
        /\ \A i \in StartingAt(entry.code_path, entry.code_line) :
              updated.scip_name = scip_atoms[i].id
        /\ updated.code_path = entry.code_path
        /\ updated.code_line = entry.code_line
        /\ (Get(entry, "scip_name") \notin {None, ""}) <=>
              (\E k \in 1..Len(warnings) : warnings[k] = "scip-name not found")

C11_Witness ==
    /\ pcRecon = "done"
    /\ entry.scip_name = "stale"
    /\ HasFileAndLine(entry)
    /\ Cardinality(StartingAt(entry.code_path, entry.code_line)) = 1
    /\ Len(scip_atoms) = 2
    /\ updated.scip_name \in AtomIdsOf(scip_atoms)
    /\ warnings = <<"scip-name not found">>

\* C16: every indexed atom with range [s, e] of file f is returned by the
\* file's interval lookup at s and at e, and is not returned at s - 1 or at
\* e + 1.
C16_BoundaryExact ==
    (pcRecon # "start") =>
        \A i \in 1..Len(scip_atoms) :
            Indexed(scip_atoms[i]) =>
                LET a == scip_atoms[i]
                    tree == scip_index[a.code_path]
                    Found(point) == \E iv \in At(tree, point) : iv.data = a.id
                IN  /\ Found(a.lines_start)
                    /\ Found(a.lines_end)
                    /\ ~Found(a.lines_start - 1)
                    /\ ~Found(a.lines_end + 1)

C16_Witness ==
    /\ pcRecon = "indexed"
    /\ \E i, j \in 1..Len(scip_atoms) :
          /\ Indexed(scip_atoms[i]) /\ Indexed(scip_atoms[j])
          /\ scip_atoms[i].code_path = scip_atoms[j].code_path
          /\ scip_atoms[i].lines_start < scip_atoms[i].lines_end
          /\ scip_atoms[j].lines_start = scip_atoms[i].lines_end + 1
          /\ At(scip_index[scip_atoms[i].code_path], scip_atoms[i].lines_end + 1)
                = {IntervalOf(scip_atoms[j])}

\* C15: when a verify sync is killed after any prefix of its file operations
\* and a sync is then run from scratch with the same verified and failed sets
\* and the same scope, the store it leaves is the store the killed run would
\* have left had it finished.
C15_RerunConverges ==
    [][(/\ pcVerify = "interrupted" /\ pcVerify' = "done"
        /\ verified_funcs' = verified_funcs
        /\ failed_funcs' = failed_funcs
        /\ structure_names' = structure_names) => certs' = uninterrupted]_vars

\* ===========================================================================
\* Properties of the specify ledger (SpecSpecify) and of both ledgers
\* (SpecLedgers)
\* ===========================================================================
\* identifiers that have a specification certificate in the store now
SpecifyCertNames == get_existing_certs(certs_specify)

\* C18 (as stated): after a specify run in which every offered id is
\* approved, the in-scope specification certificates are exactly the in-scope
\* ids that have a specification (certificates of ids that no longer qualify
\* are gone).
C18_SpecCertsAreInScopeWithSpec ==
    (pcSpecify = "done" /\ selected = uncertified) =>
        SpecifyCertNames \cap specify_names = functions_with_specs \cap specify_names

\* C18 (amended): a specify run in which every offered id is approved leaves
\* the certificates that existed before it plus one for every in-scope id
\* that has a specification; nothing is removed.
C18_SpecCertsGrowToInScopeWithSpec ==
    [][(structure' = structure /\ pcSpecify' = "done" /\ selected' = uncertified') =>
          get_existing_certs(certs_specify') =
              SpecifyCertNames \cup (functions_with_specs' \cap specify_names')]_vars

C18_Witness ==
    /\ pcSpecify = "done"
    /\ selected = uncertified
    /\ selected # {}
    /\ \E n \in SpecifyCertNames \cap specify_names : n \notin functions_with_specs

\* C19: a verify run reads and changes only certs/verify and a specify run
\* reads and changes only certs/specify, in any interleaving of the runs.
C19_LedgersIndependent ==
    [][/\ (verifyLocals' # verifyLocals) =>
             /\ certs_specify' = certs_specify
             /\ existing_certs' = CertNames
       /\ (specifyLocals' # specifyLocals) =>
             /\ certs' = certs
             /\ uncertified' = (functions_with_specs' \cap specify_names') \ SpecifyCertNames]_vars

C19_Witness ==
    /\ pcVerify = "done" /\ pcSpecify = "done"
    /\ selected # {}
    /\ \E n \in Range(deleted) : n \in SpecifyCertNames /\ n \notin CertNames
    /\ \E n \in CertNames : n \notin SpecifyCertNames

\* ===========================================================================
\* Properties of batch reconciliation (SpecBatch)
\* ===========================================================================
\* entries of the input collection whose resolution fails
FailedKeys ==
    {k \in DOMAIN structure_entries :
        update_entry_from_atoms(structure_entries[k], scip_index, scip_atoms, set_order).error # None}

\* C12: batch reconciliation never drops an entry, in either form: the run
\* completes, the output collection has exactly the keys of the input, every
\* failed entry is returned identical to its input, the failure count is the
\* number of failed entries, and the two counts add up to the number of
\* entries.
C12_NeverDropsAnEntry ==
    /\ (pcJson # "start") =>
          /\ DOMAIN result = DOMAIN structure_entries
          /\ \A k \in FailedKeys : result[k] = structure_entries[k]
          /\ not_found_count = Cardinality(FailedKeys)
          /\ updated_count + not_found_count = Cardinality(DOMAIN structure_entries)
    /\ (pcFiles = "done") =>
          /\ files_outcome = "ok"
          /\ DOMAIN md_files = DOMAIN structure_entries
          /\ \A k \in FailedKeys : md_files[k] = structure_entries[k]
          /\ files_not_found_count = Cardinality(FailedKeys)
          /\ files_updated_count + files_not_found_count = Cardinality(DOMAIN structure_entries)

\* C13: the files form and the JSON form give every entry the same code-path,
\* code-line and atom id and the same outcome, entries lacking code-path or
\* code-line included.
C13_FormsAgree ==
    (pcJson # "start" /\ pcFiles = "done") =>
        /\ files_outcome = "ok"
        /\ md_files = result
        /\ files_updated_count = updated_count
        /\ files_not_found_count = not_found_count

\* C14: reconciling the output of a reconciliation again, against the same
\* atom map and index, yields an identical collection.
C14_Idempotent ==
    (pcJson = "again") => result_again = result

C14_Witness ==
    /\ pcJson = "again"
    /\ result_again = result
    /\ result # structure_entries
    /\ \E k \in DOMAIN structure_entries :
          /\ structure_entries[k].scip_name = "stale"
          /\ result[k].scip_name \in {"s1", "s2"}
          /\ Cardinality(StartingAt(structure_entries[k].code_path,
                                    structure_entries[k].code_line)) = 2
    /\ FailedKeys # {}

\* ===========================================================================
\* Properties of the verification result extractor (SpecExtract)
\* ===========================================================================
\* C17: a verification batch is accepted in both of its shapes, and both
\* yield the same partition: the verified ids are the batch's ids marked
\* verified, the failed ids the others.
C17_BothShapesSamePartition ==
    (pcMapping = "done" /\ pcLists = "done") =>
        /\ mapping_results = lists_results
        /\ mapping_results.verified =
              {n \in DOMAIN mapping_data.verified : n # NoName /\ mapping_data.verified[n]}
        /\ mapping_results.failed =
              {n \in DOMAIN mapping_data.verified : n # NoName /\ ~mapping_data.verified[n]}

\* ===========================================================================
\* Properties of the graph decoder (SpecGraph)
\* ===========================================================================
\* C20: decoding fails with an error when no script holds the renderDot
\* digraph call, and when the payload lacks the `strict digraph "" {`
\* preamble or the closing brace; no node mapping (not even an empty one) is
\* returned or written in these cases.
C20_NoGraphIsAnError ==
    (/\ pcGraph = "done"
     /\ LET payload == get_dep_graph_string(dom)
        IN  payload = NoneDot \/ payload.preamble # Preamble \/ ~payload.closing) =>
        /\ decoded.raised # None
        /\ ~blueprint_written

\* ===========================================================================
\* The create run (SpecCreate)
\* ===========================================================================
\* Input pools of the create run.
\* One node statement `a [...]` for every combination of written attributes,
\* in three orders of writing, alone or next to a well-formed node b.
NodeValues ==
    [shape : {"ellipse", "box", "diamond", Absent},
     color : {"green", "blue", "#FFAA33", "darkgreen", "red", Absent},
     fillcolor : {"#9CEC8B", "#B0ECA3", "#A3D6FF", "#1CAC78", "white", Absent},
     label : {"a", "b", Absent},
     style : {"filled", "dashed", Absent}]
AttributeOrders ==
    {AttrKeys,
     <<"style", "label", "fillcolor", "color", "shape">>,
     <<"label", "style", "shape", "fillcolor", "color">>}
NodeStatements ==
    {NodeStatementIn(order, "a", values) : order \in AttributeOrders, values \in NodeValues}
NodeBodies ==
    {<<n>> : n \in NodeStatements} \cup
    {<<GoodNode("b"), n>> : n \in NodeStatements} \cup
    {<<n, GoodNode("b")>> : n \in NodeStatements}

\* Up to MaxEdges edge statements over the declared nodes a, b and the
\* undeclared c, written after, before or between the node statements.
EdgeEnds == {<<"a", "b">>, <<"b", "a">>, <<"a", "c">>, <<"c", "b">>}
EdgePool ==
    {EdgeStatement(ends[1], ends[2], style) :
        ends \in EdgeEnds, style \in {"dashed", "solid", Absent}}
EdgeLists == UNION {[1..n -> EdgePool] : n \in 0..MaxEdges}
EdgeBodies ==
    UNION {{<<GoodNode("a"), GoodNode("b")>> \o es,
            es \o <<GoodNode("a"), GoodNode("b")>>,
            <<GoodNode("a")>> \o es \o <<GoodNode("b")>>} : es \in EdgeLists}

\* Up to MaxDivs containers whose ids are made of the parts "a" and "_modal",
\* over digraphs declaring some of the nodes these ids can name.
DivIds == {parts \in UNION {[1..n -> {"a", Suffix}] : n \in 1..3} : parts[1] = "a"}
ModalDivs == {Div(parts, 1) : parts \in DivIds} \cup {Div(<<"a", Suffix>>, 2)}
ModalLists == UNION {[1..n -> ModalDivs] : n \in 0..MaxDivs}
ModalNodeIds == <<"a", "aa", "a_modal", "a_modala">>
ModalBodies ==
    {LET Declared(id) == id \in ids
         declared == SelectSeq(ModalNodeIds, Declared)
     IN  [i \in 1..Len(declared) |-> GoodNode(declared[i])] : ids \in SUBSET Range(ModalNodeIds)}

\* blueprint.json, config.json and the structure left by an earlier create run
PreviousBlueprint == DecodeDocument(DomOf(<<GoodNode("z")>>), <<ModalOf("z")>>).nodes
PreviousConfig ==
    [structure_type |-> "blueprint", structure_form |-> "json", structure_root |-> "blueprint"]
PreviousStructure == blueprint_to_structure(PreviousBlueprint)

\* One create run of type blueprint over a document with a well-formed
\* payload, in a project that has or has not been created before.
InitCreate ==
    /\ InitLedgerVars /\ structure_type = "blueprint"
    /\ InitCodecVars /\ InitReconVars /\ InitBatchVars /\ InitExtractVars /\ InitTrackedVars
    /\ \/ \E elements \in NodeBodies \cup EdgeBodies :
             dom = DomOf(elements) /\ modal_divs = <<>>
       \/ \E elements \in ModalBodies :
             dom = DomOf(elements) /\ modal_divs \in ModalLists
    /\ args_form \in {"json", "files"}
    /\ node_info = <<>>
    /\ decoded = Returned(<<>>)
    /\ blueprint_written = FALSE
    /\ \E previous \in BOOLEAN :
          /\ blueprint_json = IF previous THEN PreviousBlueprint ELSE <<>>
          /\ config_json = IF previous THEN PreviousConfig ELSE NoConfig
          /\ structure_output = IF previous THEN PreviousStructure ELSE <<>>
    /\ pcGraph = "start"
NextCreate == cmd_create
SpecCreate == InitCreate /\ [][NextCreate]_vars

\* ===========================================================================
\* The create run over tracked functions (SpecTracked)
\* ===========================================================================
\* Up to MaxTracked tracked functions, each in a module of its own, named f,
\* f_0 or m::f, with or without a code path.
TrackedNames == {<<"f">>, <<"f", "_0">>, <<"m", "::", "f">>}
TrackedInputs ==
    UNION {{[i \in 1..n |->
               [key |-> Join(names[i]) \o "::m" \o ToString(i),
                qualified_name |-> names[i],
                code_path |-> paths[i],
                code_line |-> i]] :
             names \in [1..n -> TrackedNames], paths \in [1..n -> {"a.rs", ""}]} :
           n \in 0..MaxTracked}

InitTracked ==
    /\ InitLedgerVars /\ structure_type = "dalek-lite"
    /\ InitCodecVars /\ InitReconVars /\ InitBatchVars /\ InitExtractVars /\ InitGraphVars
    /\ tracked \in TrackedInputs
    /\ disambiguated = <<>>
    /\ pcTracked = "start"
NextTracked == cmd_create_dalek_lite
SpecTracked == InitTracked /\ [][NextTracked]_vars

\* ===========================================================================
\* Further properties of the reconciler (SpecRecon)
\* ===========================================================================
\* C28: whenever resolution by position succeeds, the atom whose id is stored
\* in the entry has the entry's recorded file as code-path and the entry's
\* recorded line as lines-start, and the recorded file and line are unchanged.
C28_PositionResolutionSound ==
    (pcRecon = "done" /\ ~Usable(entry) /\ HasFileAndLine(entry) /\ error = None) =>
        /\ HasAtom(scip_atoms, updated.scip_name)
        /\ AtomOf(scip_atoms, updated.scip_name).code_path = entry.code_path
        /\ AtomOf(scip_atoms, updated.scip_name).lines_start = entry.code_line
        /\ updated.code_path = entry.code_path
        /\ updated.code_line = entry.code_line

C28_Witness ==
    /\ pcRecon = "done" /\ ~Usable(entry) /\ HasFileAndLine(entry) /\ error = None
    /\ Len(scip_atoms) = 2
    /\ entry.code_line > 1
    /\ \E i \in 1..2 :
          /\ scip_atoms[i].id # updated.scip_name
          /\ scip_atoms[i].code_path = entry.code_path
          /\ scip_atoms[i].lines_start # NoneLine
          /\ scip_atoms[i].lines_end # NoneLine
          /\ scip_atoms[i].lines_start < entry.code_line
          /\ scip_atoms[i].lines_end >= entry.code_line

\* ===========================================================================
\* Further properties of the specify ledger (SpecSpecify)
\* ===========================================================================
\* C30: a specify run creates certificates exactly for the ids selected in
\* the menu, each of which was offered, has a specification, is in the
\* structure's scope and had no certificate before the run; no certificate
\* file is removed, so the store only grows.
C30_SpecifyOnlyAddsApproved ==
    [][(structure' = structure) =>
          /\ get_existing_certs(certs_specify') = SpecifyCertNames \cup selected'
          /\ selected' \cap SpecifyCertNames = {}
          /\ selected' \subseteq uncertified'
          /\ selected' \subseteq functions_with_specs'
          /\ selected' \subseteq get_structure_names(structure)
          /\ certs_specify \subseteq certs_specify']_vars

C30_Witness ==
    /\ pcSpecify = "done"
    /\ selected # {}
    /\ selected # uncertified
    /\ SpecifyCertNames = selected

\* ===========================================================================
\* Properties of the create run (SpecCreate)
\* ===========================================================================
\* the statements of the decoded payload, its node statements' ids and the
\* positions of its edge statements
CreateElements == get_dep_graph_string(dom).elements
DeclaredIds ==
    {CreateElements[i].id : i \in {j \in 1..Len(CreateElements) : CreateElements[j].stmt = "node"}}
EdgePositions == {i \in 1..Len(CreateElements) : CreateElements[i].stmt = "edge"}
NodePositions == {i \in 1..Len(CreateElements) : CreateElements[i].stmt = "node"}
Dangling(i) ==
    CreateElements[i].source \notin DeclaredIds \/ CreateElements[i].target \notin DeclaredIds

\* C21: an edge whose source or target is declared by no node statement of
\* the digraph makes the decoding raise (nothing is written), wherever the
\* edge statement stands among the node statements; and when every endpoint
\* of every edge is declared somewhere in the body, before or after the edge,
\* and nothing else is wrong, the digraph is accepted.
C21_UndeclaredEndpointIsFatal ==
    pcGraph = "done" =>
        /\ (\E i \in EdgePositions : Dangling(i)) =>
              (decoded.raised # None /\ ~blueprint_written)
        /\ (/\ \A i \in EdgePositions : ~Dangling(i)
            /\ \A i \in NodePositions : NodeError(parse_node_element(CreateElements[i])) = None
            /\ modal_divs = <<>>) =>
              (decoded.raised = None /\ blueprint_written)

\* an edge to the undeclared c stands before every node statement and is
\* the only fault of the digraph
C21_Witness ==
    /\ pcGraph = "done"
    /\ Len(CreateElements) = 3
    /\ CreateElements[1].stmt = "edge"
    /\ CreateElements[1].source = "a" /\ CreateElements[1].target = "c"
    /\ CreateElements[2].stmt = "node" /\ CreateElements[3].stmt = "node"
    /\ decoded.raised = "Source or target node not found"
    /\ ~blueprint_written

\* the value a statement writes for an attribute, wherever it writes it
WrittenValue(el, key) ==
    IF \E i \in 1..Len(el.attr_string) : el.attr_string[i][1] = key
    THEN el.attr_string[CHOOSE i \in 1..Len(el.attr_string) : el.attr_string[i][1] = key][2]
    ELSE Absent

\* a node statement without structural violation
WellFormedNode(el) ==
    /\ WrittenValue(el, "shape") \in {"ellipse", "box"}
    /\ WrittenValue(el, "label") = el.id
    /\ WrittenValue(el, "style") \in {"filled", Absent}

\* C22: a node is classified by the fixed tables from the attributes it
\* writes, in whatever order it writes them: shape ellipse gives a theorem and
\* box a definition; the colour gives the type status and the fill colour the
\* term status, an attribute not written giving unknown and a value outside
\* the table unrecognized, neither of which makes the decoding fail.
C22_ClassificationByTables ==
    pcGraph = "done" =>
        /\ ((\A i \in NodePositions : WellFormedNode(CreateElements[i]))
              /\ EdgePositions = {} /\ modal_divs = <<>>) => decoded.raised = None
        /\ decoded.raised = None =>
              \A i \in NodePositions :
                 LET el == CreateElements[i]
                     node == decoded.nodes[el.id]
                     shape == WrittenValue(el, "shape")
                     color == WrittenValue(el, "color")
                     fillcolor == WrittenValue(el, "fillcolor")
                 IN  /\ el.id \in DOMAIN decoded.nodes
                     /\ shape = "ellipse" => node.kind = "theorem"
                     /\ shape = "box" => node.kind = "definition"
                     /\ node.type_status =
                           CASE color = "green" -> "stated"
                             [] color = "blue" -> "can-state"
                             [] color = "#FFAA33" -> "not-ready"
                             [] color = "darkgreen" -> "mathlib"
                             [] color = Absent -> "unknown"
                             [] OTHER -> "unrecognized"
                     /\ node.term_status =
                           CASE fillcolor = "#9CEC8B" -> "proved"
                             [] fillcolor = "#B0ECA3" -> "defined"
                             [] fillcolor = "#A3D6FF" -> "can-prove"
                             [] fillcolor = "#1CAC78" -> "fully-proved"
                             [] fillcolor = Absent -> "unknown"
                             [] OTHER -> "unrecognized"

\* a box written style first and shape last, with a colour outside the table
\* and no fill colour, is decoded
C22_Witness ==
    /\ pcGraph = "done"
    /\ decoded.raised = None
    /\ Len(CreateElements) = 1
    /\ Len(CreateElements[1].attr_string) = 4
    /\ CreateElements[1].attr_string[1][1] = "style"
    /\ CreateElements[1].attr_string[4] = <<"shape", "box">>
    /\ WrittenValue(CreateElements[1], "color") = "red"
    /\ decoded.nodes["a"].kind = "definition"
    /\ decoded.nodes["a"].type_status = "unrecognized"
    /\ decoded.nodes["a"].term_status = "unknown"

\* C23: a node statement with a structural violation (a shape other than
\* ellipse and box, no shape, no label, a label different from the id, a
\* style other than filled) makes the decoding raise, and then no node, with
\* or without violation, is returned or written.
C23_ViolatingNodeIsFatal ==
    (pcGraph = "done" /\ \E i \in NodePositions : ~WellFormedNode(CreateElements[i])) =>
        /\ decoded.raised # None
        /\ decoded.nodes = <<>>
        /\ ~blueprint_written
        /\ DeclaredIds \cap DOMAIN blueprint_json = {}

\* a node whose only violation is its style, written after a well-formed node
C23_Witness ==
    /\ pcGraph = "done"
    /\ Len(CreateElements) = 2
    /\ WellFormedNode(CreateElements[1])
    /\ WrittenValue(CreateElements[2], "shape") = "ellipse"
    /\ WrittenValue(CreateElements[2], "label") = CreateElements[2].id
    /\ WrittenValue(CreateElements[2], "style") = "dashed"
    /\ decoded.raised = "Unknown style"
    /\ DOMAIN blueprint_json = {"z"}

\* C24: a create run whose decoding hits a structural violation (a violating
\* node statement, an edge with an undeclared endpoint, or any other raised
\* error) persists nothing: blueprint.json, config.json and the structure
\* output keep the content they had before the run.
C24_FatalDecodeWritesNothing ==
    [][(\/ \E i \in NodePositions : ~WellFormedNode(CreateElements[i])
        \/ \E i \in EdgePositions : Dangling(i)
        \/ decoded'.raised # None) =>
          /\ decoded'.raised # None
          /\ ~blueprint_written'
          /\ blueprint_json' = blueprint_json
          /\ config_json' = config_json
          /\ structure_output' = structure_output]_vars

\* a run over a digraph with a dangling edge, in a project created before
C24_Witness ==
    /\ pcGraph = "done"
    /\ \E i \in EdgePositions : Dangling(i)
    /\ \A i \in NodePositions : WellFormedNode(CreateElements[i])
    /\ decoded.raised # None
    /\ blueprint_json = PreviousBlueprint
    /\ config_json = PreviousConfig
    /\ structure_output = PreviousStructure
    /\ args_form = "files"

\* the edge statements of a source, and the last statement written for a pair
EdgesFrom(source) == {i \in EdgePositions : CreateElements[i].source = source}
LastFor(i) ==
    \A j \in EdgePositions :
        (CreateElements[j].source = CreateElements[i].source
           /\ CreateElements[j].target = CreateElements[i].target) => j <= i
Dashed(i) == WrittenValue(CreateElements[i], "style") = "dashed"

\* C26: every edge statement of an accepted digraph is recorded in exactly
\* one dependency list of its source, type_dependencies when it is dashed and
\* term_dependencies otherwise: none is dropped, and no target stands in both
\* lists of a source.
C26_EveryEdgeStatementRecorded ==
    (pcGraph = "done" /\ decoded.raised = None) =>
        /\ \A i \in EdgePositions :
              LET e == CreateElements[i]
                  node == decoded.nodes[e.source]
              IN  /\ Dashed(i) => e.target \in Range(node.type_dependencies)
                  /\ ~Dashed(i) => e.target \in Range(node.term_dependencies)
        /\ \A source \in DOMAIN decoded.nodes :
              /\ Len(decoded.nodes[source].type_dependencies)
                   + Len(decoded.nodes[source].term_dependencies)
                     = Cardinality(EdgesFrom(source))
              /\ Range(decoded.nodes[source].type_dependencies)
                   \cap Range(decoded.nodes[source].term_dependencies) = {}

\* C26, amended: every (source, target) pair of the edge statements of an
\* accepted digraph is recorded exactly once, in the list chosen by the last
\* statement written for the pair (type_dependencies when that one is dashed,
\* term_dependencies otherwise); earlier statements for the same pair are
\* replaced, and no target stands in both lists of a source.
C26_EveryEdgePairRecordedOnce ==
    (pcGraph = "done" /\ decoded.raised = None) =>
        \A source \in DOMAIN decoded.nodes :
           LET type_deps == decoded.nodes[source].type_dependencies
               term_deps == decoded.nodes[source].term_dependencies
           IN  /\ Range(type_deps) =
                     {CreateElements[i].target : i \in {j \in EdgesFrom(source) : LastFor(j) /\ Dashed(j)}}
               /\ Range(term_deps) =
                     {CreateElements[i].target : i \in {j \in EdgesFrom(source) : LastFor(j) /\ ~Dashed(j)}}
               /\ Len(type_deps) = Cardinality(Range(type_deps))
               /\ Len(term_deps) = Cardinality(Range(term_deps))
               /\ Range(type_deps) \cap Range(term_deps) = {}

\* a dashed edge a -> b followed by a plain edge a -> b: only the second is
\* recorded
C26_Witness ==
    /\ pcGraph = "done"
    /\ decoded.raised = None
    /\ \E i, j \in EdgesFrom("a") :
          /\ i < j
          /\ CreateElements[i].target = "b" /\ CreateElements[j].target = "b"
          /\ Dashed(i) /\ ~Dashed(j)
    /\ decoded.nodes["a"].type_dependencies = <<>>
    /\ decoded.nodes["a"].term_dependencies = <<"b">>

\* C27: only the final "_modal" of a container id is stripped: the content
\* of container X_modal is attached to node X, also when X itself contains
\* "_modal"; a container whose id does not end in "_modal" makes the decoding
\* raise, and so does a container whose stripped id is no parsed node.
C27_OnlyTheSuffixIsStripped ==
    LET StrippedId(div) == Join(SubSeq(div.id, 1, Len(div.id) - 1))
        LastContainerFor(id) ==
            modal_divs[CHOOSE i \in 1..Len(modal_divs) :
                          /\ StrippedId(modal_divs[i]) = id
                          /\ \A j \in 1..Len(modal_divs) :
                                StrippedId(modal_divs[j]) = id => j <= i]
    IN  (/\ pcGraph = "done"
         /\ \A i \in NodePositions : WellFormedNode(CreateElements[i])
         /\ \A i \in EdgePositions : ~Dangling(i)) =>
            /\ (\E i \in 1..Len(modal_divs) : ~EndsWithSuffix(modal_divs[i].id)) =>
                  decoded.raised # None
            /\ (\E i \in 1..Len(modal_divs) :
                   /\ EndsWithSuffix(modal_divs[i].id)
                   /\ StrippedId(modal_divs[i]) \notin DeclaredIds) =>
                  decoded.raised # None
            /\ (\A i \in 1..Len(modal_divs) :
                   /\ modal_divs[i].children = 1
                   /\ EndsWithSuffix(modal_divs[i].id)
                   /\ StrippedId(modal_divs[i]) \in DeclaredIds) =>
                  /\ decoded.raised = None
                  /\ \A i \in 1..Len(modal_divs) :
                        decoded.nodes[StrippedId(modal_divs[i])].content =
                           ContentOf(LastContainerFor(StrippedId(modal_divs[i])))

\* the veri-names of the entries of the structure written by the create run
CreatedVeriNames == {structure_output[file_path].veri_name : file_path \in DOMAIN structure_output}

\* C29: in the structure made from an accepted digraph, every node has its
\* entry and every dependency of every entry is the veri-name of an entry of
\* the same structure.
C29_NoDanglingDependency ==
    (pcGraph = "done" /\ decoded.raised = None) =>
        /\ CreatedVeriNames = {"veri:" \o id : id \in DeclaredIds}
        /\ \A file_path \in DOMAIN structure_output :
              Range(structure_output[file_path].dependencies) \subseteq CreatedVeriNames

\* a and b depend on each other, the edges written before the nodes, one
\* dashed and one not
C29_Witness ==
    /\ pcGraph = "done"
    /\ decoded.raised = None
    /\ CreateElements[1].stmt = "edge"
    /\ DOMAIN structure_output = {"a.md", "b.md"}
    /\ structure_output["a.md"].dependencies = <<"veri:b">>
    /\ structure_output["b.md"].dependencies = <<"veri:a">>
    /\ decoded.nodes["a"].type_dependencies = <<"b">>
    /\ decoded.nodes["b"].term_dependencies = <<"a">>

\* ===========================================================================
\* Properties of the create run over tracked functions (SpecTracked)
\* ===========================================================================
\* C25: after tweak_disambiguate the qualified names of the tracked
\* functions are pairwise distinct: a name shared by several functions is
\* replaced by name_0, name_1, ... in each of them, the other names are kept,
\* and no two functions, renamed or not, carry the same name.
C25_NamesPairwiseDistinct ==
    pcTracked = "done" =>
        /\ Len(disambiguated) = Len(tracked)
        /\ \A i \in 1..Len(tracked) :
              IF QualifiedName(tracked[i]) \in Duplicates(tracked)
              THEN \E k \in 0..(Len(tracked) - 1) :
                      QualifiedName(disambiguated[i]) =
                         QualifiedName(tracked[i]) \o "_" \o ToString(k)
              ELSE QualifiedName(disambiguated[i]) = QualifiedName(tracked[i])
        /\ \A i, j \in 1..Len(disambiguated) :
              i # j => QualifiedName(disambiguated[i]) # QualifiedName(disambiguated[j])

====
